---- MODULE Spec2Model ----
(***************************************************************************)
(* Interaction store of the Hero galaxy scene (state/interactionStore.ts,  *)
(* carried in heroStore.ts): the IDLE / DRAGGING / INERTIA machine with    *)
(* its inertial physics and its zoom; the quality tiers                    *)
(* (utils/qualityTiers.ts) and the device capability evaluation            *)
(* (utils/deviceCaps.ts) follow the store.                                 *)
(*                                                                         *)
(* Number representation.  The store computes with IEEE-754 doubles; the   *)
(* model computes with fixed-point integers and one extra value, NaN:      *)
(*   angles             1e-5 rad           (PI = 314159)                   *)
(*   angular velocity   1e-5 rad/s         (VELOCITY_EPSILON = 10)         *)
(*   pixel deltas       1e-3 px            (pointer coordinates are        *)
(*                                          fractional)                    *)
(*   dtMs               1e-4 ms            (Ms(16) is 16 ms; 5 is 0.5 us)  *)
(*   dragSensitivity,                                                      *)
(*   damping            1e-3               (0.5 is 500, 0.95 is 950)       *)
(*   damping factor     1e-4                                               *)
(*   zoom               1e-3                                               *)
(* Every product and quotient truncates toward zero.  +-Infinity is not    *)
(* represented: magnitudes are bounded by the input sets below.            *)
(***************************************************************************)
EXTENDS Integers, FiniteSets, Sequences, TLC

VARIABLES
    store,  \* the zustand interaction store (InteractionState_Internal)
    op,     \* the last store operation called: name, arguments, FSM state before
    nOps,   \* number of operations called so far
    caps,   \* one run of evaluateDeviceCaps: its environment, position, result
    fn,     \* one application of a pure utility function: arguments, result
    sched,  \* the frame loop of useInertia and the frames of the browser
    hero,   \* the zustand hero store (HeroState)
    canvas, \* the HeroCanvas component: its renderer, its capability evaluation
    controls \* the OrbitControls component: its refs, its pending frame callback

vars == <<store, op, nOps, caps, fn, sched, hero, canvas, controls>>

\* what no operation of the interaction store reads or writes
outsideStore == <<caps, fn, sched, hero, canvas, controls>>

\* value of a variable in a specification that does not exercise it
Unused == [pc |-> "unused"]

----------------------------------------------------------------------------
(* Bounds and input sets *)

MaxOps == 4

Ms(n) == n * 10000

\* <<dxPx, dyPx, dtMs>> passed to updateDrag
DragInputs ==
    { <<100000, 0, Ms(16)>>,          \* 100 px right in one 16 ms frame
      <<-100000, 50000, Ms(16)>>,
      <<0, 1000000, Ms(16)>>,         \* 1000 px down: beyond maxPhi
      <<0, -1000000, Ms(16)>>,        \* 1000 px up: beyond minPhi
      <<1256636, 0, Ms(50)>>,         \* 1256.636 px: an angular delta of -PI
      <<1000, 1000, Ms(30000)>>,      \* 1 px in 30 s: below VELOCITY_EPSILON
      <<1000, 0, 0>>,                 \* dtMs = 0
      <<1000, -1000, 5>>,             \* dtMs = 0.0005
      <<0, 0, Ms(16)>> }

TickDts == {0, Ms(16), Ms(50)}
PositiveTickDts == TickDts \ {0}
NudgeDts == {0, Ms(16)}
Dirs == {-1, 0, 1}
Timestamps == {0, 16}

\* Partial<InteractionConfig> values passed to setConfig
ConfigPartials ==
    { [dragSensitivity |-> 1000],
      [damping |-> 500],
      [dragSensitivity |-> 500, damping |-> 950] }

----------------------------------------------------------------------------
(* IEEE-754 arithmetic on the fixed-point representation *)

NaN == -2147483647

IsNaN(x) == x = NaN

Abs(x) == IF x < 0 THEN -x ELSE x

Sgn(x) == IF x < 0 THEN -1 ELSE IF x > 0 THEN 1 ELSE 0

RECURSIVE GCD(_, _)
GCD(a, b) == IF b = 0 THEN a ELSE GCD(b, a % b)

\* v * num / den for num >= 0, den > 0, truncated toward zero, computed
\* without leaving the 32-bit range
Scale(v, num, den) ==
    Sgn(v) * ((Abs(v) \div den) * num + ((Abs(v) % den) * num) \div den)

FAdd(a, b) == IF IsNaN(a) \/ IsNaN(b) THEN NaN ELSE a + b

FNeg(a) == IF IsNaN(a) THEN NaN ELSE -a

FScale(v, num, den) == IF IsNaN(v) THEN NaN ELSE Scale(v, num, den)

\* comparisons with NaN are false
FLt(a, b) == ~IsNaN(a) /\ ~IsNaN(b) /\ a < b
FGt(a, b) == ~IsNaN(a) /\ ~IsNaN(b) /\ a > b

MathAbs(x) == IF IsNaN(x) THEN NaN ELSE Abs(x)

MathMax(a, b) == IF IsNaN(a) \/ IsNaN(b) THEN NaN ELSE IF a > b THEN a ELSE b

MathMin(a, b) == IF IsNaN(a) \/ IsNaN(b) THEN NaN ELSE IF a < b THEN a ELSE b

\* x * dtSec, dtSec = dt / 1e7 seconds
TimesSec(x, dt) ==
    IF dt = 0 THEN (IF IsNaN(x) THEN NaN ELSE 0)
    ELSE FScale(x, dt \div GCD(dt, 10000000), 10000000 \div GCD(dt, 10000000))

\* x / dtSec.  0 / 0 is NaN; the only caller that can pass dt = 0
\* (nudgeOrbitFromKeys) passes x = k * dtSec = 0 with it.
DivSec(x, dt) ==
    IF dt = 0 THEN NaN
    ELSE FScale(x, 10000000 \div GCD(dt, 10000000), dt \div GCD(dt, 10000000))

\* Math.pow(damping, dtMs / 16.67), floor of the value in 1e-4
MathPowDamping(damping, dtMs) ==
    CASE dtMs = 0 -> 10000
      [] damping = 950 /\ dtMs = Ms(16) -> 9519
      [] damping = 950 /\ dtMs = Ms(50) -> 8574
      [] damping = 950 /\ dtMs = Ms(5000) -> 0
      [] damping = 500 /\ dtMs = Ms(16) -> 5141
      [] damping = 500 /\ dtMs = Ms(50) -> 1250

\* Math.exp(-lambdaPerSec * (dtMs / 1000)), floor of the value in 1e-4
MathExpDecay(lambdaPerSec, dtMs) ==
    CASE dtMs = 0 -> 10000
      [] lambdaPerSec = 4 /\ dtMs = Ms(16) -> 9380
      [] lambdaPerSec = 4 /\ dtMs = Ms(50) -> 8187
      [] lambdaPerSec = 4 /\ dtMs = Ms(5000) -> 0
      [] lambdaPerSec = 12 /\ dtMs = Ms(16) -> 8253
      [] lambdaPerSec = 12 /\ dtMs = Ms(50) -> 5488
      [] lambdaPerSec = 12 /\ dtMs = Ms(5000) -> 0

----------------------------------------------------------------------------
(* Constants and helpers of the store *)

PI == 314159

DEFAULT_CONFIG ==
    [ dragSensitivity |-> 500,
      damping |-> 950,
      minZoom |-> 2000,
      maxZoom |-> 10000,
      minElevationDeg |-> -60,
      maxElevationDeg |-> 60 ]

DRAG_SENSITIVITY_TO_RAD_PER_PX == 500

VELOCITY_EPSILON == 10

KEYBOARD_NUDGE_SPEED == 100000

WHEEL_ZOOM_SENSITIVITY == 100

ZOOM_EASE_LAMBDA == 4

NULL == -1

degToRad(deg) == Scale(deg, PI, 180)

clamp(value, min, max) == MathMin(MathMax(value, min), max)

RECURSIVE wrapDown(_)
wrapDown(w) == IF FGt(w, PI) THEN wrapDown(w - 2 * PI) ELSE w

RECURSIVE wrapUp(_)
wrapUp(w) == IF FLt(w, -PI) THEN wrapUp(w + 2 * PI) ELSE w

wrapTheta(theta) == wrapUp(wrapDown(theta))

\* mutant: the two axes joined by "or"
isNearZeroEitherAxis(velocity) ==
    \/ FLt(MathAbs(velocity.theta), VELOCITY_EPSILON)
    \/ FLt(MathAbs(velocity.phi), VELOCITY_EPSILON)

isNearZero(velocity) ==
    /\ FLt(MathAbs(velocity.theta), VELOCITY_EPSILON)
    /\ FLt(MathAbs(velocity.phi), VELOCITY_EPSILON)

\* mutant: the linear step lambda * dt, which passes the target for long frames
easeExpLinear(current, target, lambdaPerSec, dtMs) ==
    LET factor == (lambdaPerSec * dtMs) \div 1000
    IN  FAdd(current, FScale(FAdd(target, FNeg(current)), factor, 10000))

easeExp(current, target, lambdaPerSec, dtMs) ==
    LET factor == 10000 - MathExpDecay(lambdaPerSec, dtMs)
    IN  FAdd(current, FScale(FAdd(target, FNeg(current)), factor, 10000))

getElevationLimits(config) ==
    [ minPhi |-> degToRad(config.minElevationDeg),
      maxPhi |-> degToRad(config.maxElevationDeg) ]

initialState ==
    [ state |-> "IDLE",
      current |-> [theta |-> 0, phi |-> 0],
      target |-> [theta |-> 0, phi |-> 0],
      zoom |-> 4000,
      targetZoom |-> 4000,
      velocity |-> [theta |-> 0, phi |-> 0],
      lastTs |-> NULL,
      isPointerCaptured |-> FALSE,
      isKeyboardFocused |-> FALSE,
      config |-> DEFAULT_CONFIG ]

----------------------------------------------------------------------------
(* Store operations, as functions from the store to the store *)

setConfig(s, partial) ==
    [s EXCEPT !.config =
        [k \in DOMAIN s.config |->
            IF k \in DOMAIN partial THEN partial[k] ELSE s.config[k]]]

\* mutant: the velocity is not reset
beginDragKeepsVelocity(s, ts) ==
    [s EXCEPT !.state = "DRAGGING", !.lastTs = ts]

beginDrag(s, ts) ==
    [s EXCEPT !.state = "DRAGGING",
              !.lastTs = ts,
              !.velocity = [theta |-> 0, phi |-> 0]]

\* mutant: the horizontal direction is not inverted
updateDragNotInverted(s, dxPx, dyPx, dtMs) ==
    LET limits == getElevationLimits(s.config)
        radPerPx == Scale(s.config.dragSensitivity,
                          DRAG_SENSITIVITY_TO_RAD_PER_PX, 1000)
        dTheta == Scale(dxPx, radPerPx, 1000)
        dPhi == Scale(dyPx, radPerPx, 1000)
        newTarget ==
            [ theta |-> wrapTheta(FAdd(s.target.theta, dTheta)),
              phi |-> clamp(FAdd(s.target.phi, dPhi),
                            limits.minPhi, limits.maxPhi) ]
        dt == IF dtMs > 10 THEN dtMs ELSE 10
    IN  [s EXCEPT !.target = newTarget,
                  !.velocity = [ theta |-> DivSec(dTheta, dt),
                                 phi |-> DivSec(dPhi, dt) ]]

updateDrag(s, dxPx, dyPx, dtMs) ==
    LET limits == getElevationLimits(s.config)
        radPerPx == Scale(s.config.dragSensitivity,
                          DRAG_SENSITIVITY_TO_RAD_PER_PX, 1000)
        dTheta == -Scale(dxPx, radPerPx, 1000)
        dPhi == Scale(dyPx, radPerPx, 1000)
        newTarget ==
            [ theta |-> wrapTheta(FAdd(s.target.theta, dTheta)),
              phi |-> clamp(FAdd(s.target.phi, dPhi),
                            limits.minPhi, limits.maxPhi) ]
        \* Math.max(dtMs / 1000, 1e-6): 1e-6 s is 10 units of dtMs
        dt == IF dtMs > 10 THEN dtMs ELSE 10
    IN  [s EXCEPT !.target = newTarget,
                  !.velocity = [ theta |-> DivSec(dTheta, dt),
                                 phi |-> DivSec(dPhi, dt) ]]

\* mutant: a still drag is not ended
endDragKeepsStillDrag(s, ts) ==
    IF isNearZero(s.velocity)
    THEN s
    ELSE [s EXCEPT !.state = "INERTIA", !.lastTs = ts]

endDrag(s, ts) ==
    IF isNearZero(s.velocity)
    THEN [s EXCEPT !.state = "IDLE"]
    ELSE [s EXCEPT !.state = "INERTIA", !.lastTs = ts]

\* mutant: the stop branch is missing
tickInertiaNoStop(s, dtMs) ==
    IF s.state # "INERTIA" THEN s
    ELSE
    LET limits == getElevationLimits(s.config)
        dampingFactor == MathPowDamping(s.config.damping, dtMs)
        newVelocity ==
            [ theta |-> FScale(s.velocity.theta, dampingFactor, 10000),
              phi |-> FScale(s.velocity.phi, dampingFactor, 10000) ]
        newTarget ==
            [ theta |-> wrapTheta(FAdd(s.target.theta,
                                       TimesSec(newVelocity.theta, dtMs))),
              phi |-> clamp(FAdd(s.target.phi,
                                 TimesSec(newVelocity.phi, dtMs)),
                            limits.minPhi, limits.maxPhi) ]
    IN  [s EXCEPT !.target = newTarget,
                  !.velocity = newVelocity]

\* mutant: the stop branch leaves the damped velocity in place
tickInertiaStopKeepsVelocity(s, dtMs) ==
    IF s.state # "INERTIA" THEN s
    ELSE
    LET limits == getElevationLimits(s.config)
        dampingFactor == MathPowDamping(s.config.damping, dtMs)
        newVelocity ==
            [ theta |-> FScale(s.velocity.theta, dampingFactor, 10000),
              phi |-> FScale(s.velocity.phi, dampingFactor, 10000) ]
        newTarget ==
            [ theta |-> wrapTheta(FAdd(s.target.theta,
                                       TimesSec(newVelocity.theta, dtMs))),
              phi |-> clamp(FAdd(s.target.phi,
                                 TimesSec(newVelocity.phi, dtMs)),
                            limits.minPhi, limits.maxPhi) ]
    IN  IF isNearZero(newVelocity)
        THEN [s EXCEPT !.state = "IDLE",
                       !.target = newTarget,
                       !.velocity = newVelocity]
        ELSE [s EXCEPT !.target = newTarget,
                       !.velocity = newVelocity]

\* mutant: the tick integrates during a drag as well
tickInertiaWhileDragging(s, dtMs) ==
    IF s.state = "IDLE" THEN s
    ELSE
    LET limits == getElevationLimits(s.config)
        dampingFactor == MathPowDamping(s.config.damping, dtMs)
        newVelocity ==
            [ theta |-> FScale(s.velocity.theta, dampingFactor, 10000),
              phi |-> FScale(s.velocity.phi, dampingFactor, 10000) ]
        newTarget ==
            [ theta |-> wrapTheta(FAdd(s.target.theta,
                                       TimesSec(newVelocity.theta, dtMs))),
              phi |-> clamp(FAdd(s.target.phi,
                                 TimesSec(newVelocity.phi, dtMs)),
                            limits.minPhi, limits.maxPhi) ]
    IN  IF isNearZero(newVelocity)
        THEN [s EXCEPT !.state = "IDLE",
                       !.target = newTarget,
                       !.velocity = [theta |-> 0, phi |-> 0]]
        ELSE [s EXCEPT !.target = newTarget,
                       !.velocity = newVelocity]

tickInertia(s, dtMs) ==
    IF s.state # "INERTIA" THEN s
    ELSE
    LET limits == getElevationLimits(s.config)
        dampingFactor == MathPowDamping(s.config.damping, dtMs)
        newVelocity ==
            [ theta |-> FScale(s.velocity.theta, dampingFactor, 10000),
              phi |-> FScale(s.velocity.phi, dampingFactor, 10000) ]
        newTarget ==
            [ theta |-> wrapTheta(FAdd(s.target.theta,
                                       TimesSec(newVelocity.theta, dtMs))),
              phi |-> clamp(FAdd(s.target.phi,
                                 TimesSec(newVelocity.phi, dtMs)),
                            limits.minPhi, limits.maxPhi) ]
    IN  IF isNearZero(newVelocity)
        THEN [s EXCEPT !.state = "IDLE",
                       !.target = newTarget,
                       !.velocity = [theta |-> 0, phi |-> 0]]
        ELSE [s EXCEPT !.target = newTarget,
                       !.velocity = newVelocity]

\* mutant: the nudge takes the machine to INERTIA from every state
nudgeOrbitFromKeysAlwaysInertia(s, xDir, yDir, dtMs) ==
    IF xDir = 0 /\ yDir = 0 THEN s
    ELSE
    LET limits == getElevationLimits(s.config)
        speed == Scale(KEYBOARD_NUDGE_SPEED, s.config.dragSensitivity, 1000)
        dTheta == -xDir * TimesSec(speed, dtMs)
        dPhi == yDir * TimesSec(speed, dtMs)
        newTarget ==
            [ theta |-> wrapTheta(FAdd(s.target.theta, dTheta)),
              phi |-> clamp(FAdd(s.target.phi, dPhi),
                            limits.minPhi, limits.maxPhi) ]
        newVelocity ==
            [ theta |-> DivSec(dTheta, dtMs),
              phi |-> DivSec(dPhi, dtMs) ]
    IN  [s EXCEPT !.target = newTarget,
                  !.velocity = newVelocity,
                  !.state = "INERTIA"]

nudgeOrbitFromKeys(s, xDir, yDir, dtMs) ==
    IF xDir = 0 /\ yDir = 0 THEN s
    ELSE
    LET limits == getElevationLimits(s.config)
        speed == Scale(KEYBOARD_NUDGE_SPEED, s.config.dragSensitivity, 1000)
        dTheta == -xDir * TimesSec(speed, dtMs)
        dPhi == yDir * TimesSec(speed, dtMs)
        newTarget ==
            [ theta |-> wrapTheta(FAdd(s.target.theta, dTheta)),
              phi |-> clamp(FAdd(s.target.phi, dPhi),
                            limits.minPhi, limits.maxPhi) ]
        newVelocity ==
            [ theta |-> DivSec(dTheta, dtMs),
              phi |-> DivSec(dPhi, dtMs) ]
    IN  [s EXCEPT !.target = newTarget,
                  !.velocity = newVelocity,
                  !.state = IF s.state = "IDLE" THEN "INERTIA" ELSE s.state]

\* mutant: the requested zoom stored as given
setZoomTargetUnclamped(s, zoom) == [s EXCEPT !.targetZoom = zoom]

setZoomTarget(s, zoom) ==
    [s EXCEPT !.targetZoom = clamp(zoom, s.config.minZoom, s.config.maxZoom)]

\* deltaY in wheel units (1 is one pixel of scroll)
applyWheelZoom(s, deltaY) ==
    LET zoomDelta == deltaY * WHEEL_ZOOM_SENSITIVITY
        newTargetZoom == FAdd(s.targetZoom, zoomDelta)
    IN  setZoomTarget(s, newTargetZoom)

\* scale in 1e-3 (1000 is a pinch that changes nothing)
applyPinchZoom(s, scale) ==
    LET newTargetZoom ==
            IF scale >= 0 THEN FScale(s.targetZoom, scale, 1000)
            ELSE FNeg(FScale(s.targetZoom, -scale, 1000))
    IN  setZoomTarget(s, newTargetZoom)

\* mutant: easing the zoom also ends the coast
commitZoomStopsInertia(s, dtMs) ==
    [s EXCEPT !.zoom = easeExp(s.zoom, s.targetZoom, ZOOM_EASE_LAMBDA, dtMs),
              !.state = IF s.state = "INERTIA" THEN "IDLE" ELSE s.state,
              !.velocity = IF s.state = "INERTIA" THEN [theta |-> 0, phi |-> 0]
                           ELSE s.velocity]

commitZoom(s, dtMs) ==
    LET newZoom == easeExp(s.zoom, s.targetZoom, ZOOM_EASE_LAMBDA, dtMs)
    IN  [s EXCEPT !.zoom = newZoom]

reset(s) == initialState

----------------------------------------------------------------------------
(* The state machine: one action per store operation *)

Call(name, a, b, c) == [name |-> name, a |-> a, b |-> b, c |-> c, from |-> store.state]

Init ==
    /\ store = initialState
    /\ op = [name |-> "create", a |-> 0, b |-> 0, c |-> 0, from |-> "IDLE"]
    /\ nOps = 0
    /\ caps = Unused
    /\ fn = Unused
    /\ sched = Unused
    /\ hero = Unused
    /\ canvas = Unused
    /\ controls = Unused

SetConfig ==
    /\ nOps < MaxOps
    /\ \E partial \in ConfigPartials :
        /\ store' = setConfig(store, partial)
        /\ op' = Call("setConfig", 0, 0, 0)
    /\ nOps' = nOps + 1
    /\ UNCHANGED outsideStore

BeginDrag ==
    /\ nOps < MaxOps
    /\ \E ts \in Timestamps :
        /\ store' = beginDrag(store, ts)
        /\ op' = Call("beginDrag", ts, 0, 0)
    /\ nOps' = nOps + 1
    /\ UNCHANGED outsideStore

UpdateDrag ==
    /\ nOps < MaxOps
    /\ \E d \in DragInputs :
        /\ store' = updateDrag(store, d[1], d[2], d[3])
        /\ op' = Call("updateDrag", d[1], d[2], d[3])
    /\ nOps' = nOps + 1
    /\ UNCHANGED outsideStore

EndDrag ==
    /\ nOps < MaxOps
    /\ \E ts \in Timestamps :
        /\ store' = endDrag(store, ts)
        /\ op' = Call("endDrag", ts, 0, 0)
    /\ nOps' = nOps + 1
    /\ UNCHANGED outsideStore

TickInertia ==
    /\ nOps < MaxOps
    /\ \E dtMs \in TickDts :
        /\ store' = tickInertia(store, dtMs)
        /\ op' = Call("tickInertia", dtMs, 0, 0)
    /\ nOps' = nOps + 1
    /\ UNCHANGED outsideStore

NudgeOrbitFromKeys ==
    /\ nOps < MaxOps
    /\ \E xDir \in Dirs, yDir \in Dirs, dtMs \in NudgeDts :
        /\ store' = nudgeOrbitFromKeys(store, xDir, yDir, dtMs)
        /\ op' = Call("nudgeOrbitFromKeys", xDir, yDir, dtMs)
    /\ nOps' = nOps + 1
    /\ UNCHANGED outsideStore

Reset ==
    /\ nOps < MaxOps
    /\ store' = reset(store)
    /\ op' = Call("reset", 0, 0, 0)
    /\ nOps' = nOps + 1
    /\ UNCHANGED outsideStore

Next ==
    \/ SetConfig
    \/ BeginDrag
    \/ UpdateDrag
    \/ EndDrag
    \/ TickInertia
    \/ NudgeOrbitFromKeys
    \/ Reset

Spec == Init /\ [][Next]_vars

----------------------------------------------------------------------------
(* Inertial coasting alone: a released drag, then tickInertia once per     *)
(* frame with a constant positive frame interval and no other operation.   *)

\* the stores a drag of one move leaves in INERTIA
InertiaStarts ==
    { s \in { endDrag(updateDrag(beginDrag(setConfig(initialState, p), 0),
                                d[1], d[2], d[3]), 16) :
                 d \in DragInputs, p \in ConfigPartials } :
        s.state = "INERTIA" }

InitInertia ==
    /\ store \in InertiaStarts
    /\ op = [name |-> "endDrag", a |-> 16, b |-> 0, c |-> 0, from |-> "DRAGGING"]
    /\ nOps = 0
    /\ caps = Unused
    /\ fn = Unused
    /\ sched = Unused
    /\ hero = Unused
    /\ canvas = Unused
    /\ controls = Unused

FrameTick ==
    /\ \E dtMs \in PositiveTickDts :
        /\ op.name = "tickInertia" => dtMs = op.a
        /\ store' = tickInertia(store, dtMs)
        /\ op' = Call("tickInertia", dtMs, 0, 0)
    /\ UNCHANGED nOps
    /\ UNCHANGED outsideStore

NextInertia == FrameTick

SpecInertia == InitInertia /\ [][NextInertia]_vars /\ WF_vars(FrameTick)

----------------------------------------------------------------------------
(* Zoom: the four zoom operations, interleaved with the operations of the  *)
(* orbit machine so that they are called in each of its three states.      *)

MaxZoomOps == 5

\* zoom levels requested of setZoomTarget: below, inside and above the range
ZoomRequests == {-3000, 1000, 5500, 12000}

\* wheel deltaY
WheelDeltas == {-5, 100}

\* pinch scale factors in 1e-3, zero and a negative included
PinchScales == {-1000, 0, 1100, 2000}

\* calls of the orbit machine, one or two per operation
OrbitCalls ==
    { [name |-> "beginDrag", a |-> 0, b |-> 0, c |-> 0],
      [name |-> "updateDrag", a |-> 100000, b |-> 0, c |-> Ms(16)],
      [name |-> "updateDrag", a |-> 0, b |-> 50000, c |-> Ms(16)],
      [name |-> "endDrag", a |-> 16, b |-> 0, c |-> 0],
      [name |-> "tickInertia", a |-> Ms(16), b |-> 0, c |-> 0],
      [name |-> "nudgeOrbitFromKeys", a |-> 1, b |-> 0, c |-> Ms(16)] }

ApplyOrbitCall(s, call) ==
    CASE call.name = "beginDrag" -> beginDrag(s, call.a)
      [] call.name = "updateDrag" -> updateDrag(s, call.a, call.b, call.c)
      [] call.name = "endDrag" -> endDrag(s, call.a)
      [] call.name = "tickInertia" -> tickInertia(s, call.a)
      [] call.name = "nudgeOrbitFromKeys" ->
            nudgeOrbitFromKeys(s, call.a, call.b, call.c)

SetZoomTarget ==
    /\ nOps < MaxZoomOps
    /\ \E zoom \in ZoomRequests :
        /\ store' = setZoomTarget(store, zoom)
        /\ op' = Call("setZoomTarget", zoom, 0, 0)
    /\ nOps' = nOps + 1
    /\ UNCHANGED outsideStore

ApplyWheelZoom ==
    /\ nOps < MaxZoomOps
    /\ \E deltaY \in WheelDeltas :
        /\ store' = applyWheelZoom(store, deltaY)
        /\ op' = Call("applyWheelZoom", deltaY, 0, 0)
    /\ nOps' = nOps + 1
    /\ UNCHANGED outsideStore

ApplyPinchZoom ==
    /\ nOps < MaxZoomOps
    /\ \E scale \in PinchScales :
        /\ store' = applyPinchZoom(store, scale)
        /\ op' = Call("applyPinchZoom", scale, 0, 0)
    /\ nOps' = nOps + 1
    /\ UNCHANGED outsideStore

CommitZoom ==
    /\ nOps < MaxZoomOps
    /\ \E dtMs \in TickDts :
        /\ store' = commitZoom(store, dtMs)
        /\ op' = Call("commitZoom", dtMs, 0, 0)
    /\ nOps' = nOps + 1
    /\ UNCHANGED outsideStore

OrbitCall ==
    /\ nOps < MaxZoomOps
    /\ \E call \in OrbitCalls :
        /\ store' = ApplyOrbitCall(store, call)
        /\ op' = Call(call.name, call.a, call.b, call.c)
    /\ nOps' = nOps + 1
    /\ UNCHANGED outsideStore

NextZoom ==
    \/ SetZoomTarget
    \/ ApplyWheelZoom
    \/ ApplyPinchZoom
    \/ CommitZoom
    \/ OrbitCall

SpecZoom == Init /\ [][NextZoom]_vars

----------------------------------------------------------------------------
(* Quality tiers (utils/qualityTiers.ts) and tier selection                *)
(* (utils/deviceCaps.ts).  Units: fps in 0.1 frames per second;            *)
(* renderScale and device pixel ratios in 1e-3.                            *)
(*                                                                         *)
(* The repository carries utils/deviceCaps.ts twice: the file of that name *)
(* and a second text of it at the head of part_003.  They differ in        *)
(* decideTier, detectWebGLVersion and benchmarkFps; both are modelled, and *)
(* an implementation tag says which one a call or a run uses.              *)

LOW == "LOW"
MEDIUM == "MEDIUM"
HIGH == "HIGH"

QualityTier == {LOW, MEDIUM, HIGH}

Implementations == {"deviceCaps.ts", "part_003"}

\* mutant: the MEDIUM tier given fewer particles than LOW
QUALITY_CONFIG_MediumStarved ==
    [ t \in QualityTier |->
        [ particles |-> CASE t = LOW -> 5000 [] t = MEDIUM -> 2000 [] t = HIGH -> 50000,
          renderScale |-> CASE t = LOW -> 800 [] t = MEDIUM -> 900 [] t = HIGH -> 1000,
          dprCapMobile |-> 1500,
          dprCapDesktop |-> 2000,
          targetFpsMid |-> 450,
          targetFpsLow |-> 300 ] ]

QUALITY_CONFIG ==
    [ t \in QualityTier |->
        [ particles |-> CASE t = LOW -> 5000 [] t = MEDIUM -> 20000 [] t = HIGH -> 50000,
          renderScale |-> CASE t = LOW -> 800 [] t = MEDIUM -> 900 [] t = HIGH -> 1000,
          dprCapMobile |-> 1500,
          dprCapDesktop |-> 2000,
          targetFpsMid |-> 450,
          targetFpsLow |-> 300 ] ]

getQualityConfig(tier) == QUALITY_CONFIG[tier]

\* mutant: the desktop cap applied to mobile devices too
clampDprDesktopCapOnly(dpr, isMobile) ==
    MathMin(dpr, QUALITY_CONFIG[LOW].dprCapDesktop)

clampDpr(dpr, isMobile) ==
    LET maxDpr == IF isMobile THEN QUALITY_CONFIG[LOW].dprCapMobile
                  ELSE QUALITY_CONFIG[LOW].dprCapDesktop
    IN  MathMin(dpr, maxDpr)

\* mutant: HIGH only above 55 fps, not at it
decideTierHighAbove55(fps, isMobile) ==
    IF isMobile
    THEN IF fps >= 500 THEN MEDIUM ELSE IF fps >= 350 THEN MEDIUM ELSE LOW
    ELSE IF fps > 550 THEN HIGH ELSE IF fps >= 400 THEN MEDIUM ELSE LOW

\* mutant: mobile devices dropped to LOW under 60 fps
decideTierMobileLowUnder60(fps, isMobile) ==
    IF isMobile
    THEN IF fps >= 600 THEN MEDIUM ELSE LOW
    ELSE IF fps >= 550 THEN HIGH ELSE IF fps >= 400 THEN MEDIUM ELSE LOW

\* decideTier of the file deviceCaps.ts
decideTier(fps, isMobile) ==
    IF isMobile
    THEN IF fps >= 500 THEN MEDIUM ELSE IF fps >= 350 THEN MEDIUM ELSE LOW
    ELSE IF fps >= 550 THEN HIGH ELSE IF fps >= 400 THEN MEDIUM ELSE LOW

\* mutant: the desktop thresholds applied to mobile devices
decideTierPart003AnyDevice(fps, isMobile) ==
    IF fps >= 550 THEN HIGH ELSE IF fps >= 400 THEN MEDIUM ELSE LOW

\* decideTier of part_003
decideTierPart003(fps, isMobile) ==
    IF isMobile
    THEN IF fps >= 500 THEN MEDIUM ELSE LOW
    ELSE IF fps >= 550 THEN HIGH ELSE IF fps >= 400 THEN MEDIUM ELSE LOW

----------------------------------------------------------------------------
(* The pure functions applied to arguments drawn from bounded sets: fn     *)
(* holds one call, first pending, then with its result.                    *)

MaxFps == 2500
MaxNegFps == 100
MaxDpr == 4000
MaxNegDpr == 1000

\* -10.0 to 250.0 frames per second in steps of 0.1
FpsValues == (-MaxNegFps) .. MaxFps

\* -1.0 to 4.0 in steps of 0.025
DprValues == { d \in (-MaxNegDpr) .. MaxDpr : d % 25 = 0 }

InitFunctions ==
    /\ store = initialState
    /\ op = [name |-> "create", a |-> 0, b |-> 0, c |-> 0, from |-> "IDLE"]
    /\ nOps = 0
    /\ caps = Unused
    /\ sched = Unused
    /\ hero = Unused
    /\ canvas = Unused
    /\ controls = Unused
    /\ \/ \E impl \in Implementations, fps \in FpsValues, isMobile \in BOOLEAN :
            fn = [pc |-> "called", name |-> "decideTier", impl |-> impl,
                  fps |-> fps, isMobile |-> isMobile]
       \/ \E dpr \in DprValues, isMobile \in BOOLEAN :
            fn = [pc |-> "called", name |-> "clampDpr",
                  dpr |-> dpr, isMobile |-> isMobile]
       \/ \E tier \in QualityTier :
            fn = [pc |-> "called", name |-> "getQualityConfig", tier |-> tier]

DecideTier ==
    /\ fn.pc = "called" /\ fn.name = "decideTier"
    /\ fn' = [ pc |-> "returned", name |-> fn.name, impl |-> fn.impl,
               fps |-> fn.fps, isMobile |-> fn.isMobile,
               result |-> IF fn.impl = "deviceCaps.ts"
                          THEN decideTier(fn.fps, fn.isMobile)
                          ELSE decideTierPart003(fn.fps, fn.isMobile) ]
    /\ UNCHANGED <<store, op, nOps, caps, sched, hero, canvas, controls>>

ClampDpr ==
    /\ fn.pc = "called" /\ fn.name = "clampDpr"
    /\ fn' = [ pc |-> "returned", name |-> fn.name,
               dpr |-> fn.dpr, isMobile |-> fn.isMobile,
               result |-> clampDpr(fn.dpr, fn.isMobile) ]
    /\ UNCHANGED <<store, op, nOps, caps, sched, hero, canvas, controls>>

GetQualityConfig ==
    /\ fn.pc = "called" /\ fn.name = "getQualityConfig"
    /\ fn' = [ pc |-> "returned", name |-> fn.name, tier |-> fn.tier,
               result |-> getQualityConfig(fn.tier) ]
    /\ UNCHANGED <<store, op, nOps, caps, sched, hero, canvas, controls>>

NextFunctions ==
    \/ DecideTier
    \/ ClampDpr
    \/ GetQualityConfig

SpecFunctions == InitFunctions /\ [][NextFunctions]_vars

----------------------------------------------------------------------------
(* evaluateDeviceCaps: one run, from the call to the resolution of its     *)
(* promise.  caps.env is the environment the run finds; times are in ms.   *)

durationMs == 700
duration == 500

\* navigator.userAgent, by the substrings isMobileUA looks for
UserAgents ==
    { [mobileKeyword |-> FALSE, tablet |-> FALSE, ipad |-> FALSE],   \* desktop
      [mobileKeyword |-> TRUE, tablet |-> FALSE, ipad |-> FALSE],    \* phone
      [mobileKeyword |-> TRUE, tablet |-> TRUE, ipad |-> FALSE],     \* android tablet
      [mobileKeyword |-> TRUE, tablet |-> FALSE, ipad |-> TRUE] }    \* ipad

\* window.devicePixelRatio in 1e-3; 0 stands for a missing or zero ratio
DevicePixelRatios == {0, 1000, 1750, 3000}

\* the context names for which canvas.getContext returns a context
ContextSupport ==
    { {}, {"webgl2", "webgl"}, {"webgl2"}, {"webgl"}, {"experimental-webgl"} }

\* ms between two animation frames
FramePeriods == {8, 17, 22, 30}

\* the one call of the browser that throws in this environment, if any
\* (getContextThrows apart): navigator.userAgent, gl.getExtension,
\* document.body.appendChild, document.body.removeChild
Faults == {"none", "userAgent", "getExtension", "appendChild", "removeChild"}

Environments ==
    [ impl : Implementations,
      browser : BOOLEAN,
      userAgent : UserAgents,
      devicePixelRatio : DevicePixelRatios,
      contexts : ContextSupport,
      getContextThrows : BOOLEAN,
      loseContext : BOOLEAN,        \* WEBGL_lose_context is offered
      fault : Faults,
      framePeriod : FramePeriods ]

\* Math.round(n / d) for n >= 0, d > 0
MathRoundDiv(n, d) == (2 * n + d) \div (2 * d)

\* mutant: the environment taken to be a browser without looking
isBrowserAssumed(env) == TRUE

isBrowser(env) == env.browser

isMobileUA(env) ==
    IF ~isBrowser(env) THEN FALSE
    ELSE /\ env.userAgent.mobileKeyword
         /\ ~env.userAgent.tablet
         /\ ~env.userAgent.ipad

\* the probe: its answer, how many contexts it acquired, and how many of
\* them are still live when it returns
detectWebGLVersion(env) ==
    LET released == env.impl = "part_003" /\ env.loseContext
        found(version) ==
            IF env.impl = "part_003" /\ env.fault = "getExtension"
            THEN \* getExtension throws inside the try block, context in hand
                 [ available |-> FALSE, version |-> 0,
                   reason |-> "WebGL detection failed: message",
                   acquired |-> 1, live |-> 1 ]
            ELSE [ available |-> TRUE, version |-> version, reason |-> "",
                   acquired |-> 1, live |-> IF released THEN 0 ELSE 1 ]
    IN  IF ~isBrowser(env)
        THEN [ available |-> FALSE, version |-> 0, reason |-> "SSR environment",
               acquired |-> 0, live |-> 0 ]
        ELSE IF env.getContextThrows
        THEN [ available |-> FALSE, version |-> 0,
               reason |-> "WebGL detection failed: message",
               acquired |-> 0, live |-> 0 ]
        ELSE IF "webgl2" \in env.contexts THEN found(2)
        ELSE IF "webgl" \in env.contexts \/ "experimental-webgl" \in env.contexts
        THEN found(1)
        ELSE [ available |-> FALSE, version |-> 0, reason |-> "WebGL not supported",
               acquired |-> 0, live |-> 0 ]

\* DeviceCaps returned outside a browser; reason "" stands for no reason
ssrCaps ==
    [ isWebGLAvailable |-> FALSE,
      webglVersion |-> 0,
      reason |-> "Server-side rendering environment",
      isMobile |-> FALSE,
      dpr |-> 1000,
      clampedDpr |-> 1000,
      fpsEstimate |-> 0,
      tier |-> LOW,
      config |-> getQualityConfig(LOW) ]

\* mutant: the early exit without its reason
unavailableCapsSilent(webglResult, isMobile, dpr, clampedDpr) ==
    [ isWebGLAvailable |-> FALSE,
      webglVersion |-> webglResult.version,
      reason |-> "",
      isMobile |-> isMobile,
      dpr |-> dpr,
      clampedDpr |-> clampedDpr,
      fpsEstimate |-> 0,
      tier |-> LOW,
      config |-> getQualityConfig(LOW) ]

\* DeviceCaps of the early exit when detection found nothing
unavailableCaps(webglResult, isMobile, dpr, clampedDpr) ==
    [ isWebGLAvailable |-> FALSE,
      webglVersion |-> webglResult.version,
      reason |-> IF webglResult.reason # "" THEN webglResult.reason
                 ELSE "WebGL detection failed",
      isMobile |-> isMobile,
      dpr |-> dpr,
      clampedDpr |-> clampedDpr,
      fpsEstimate |-> 0,
      tier |-> LOW,
      config |-> getQualityConfig(LOW) ]

\* DeviceCaps after the benchmark; fpsEstimate in whole frames per second
benchmarkedCaps(env, webglResult, isMobile, dpr, clampedDpr, fpsEstimate) ==
    LET tier == IF env.impl = "deviceCaps.ts"
                THEN decideTier(fpsEstimate * 10, isMobile)
                ELSE decideTierPart003(fpsEstimate * 10, isMobile)
    IN  [ isWebGLAvailable |-> TRUE,
          webglVersion |-> webglResult.version,
          reason |-> "",
          isMobile |-> isMobile,
          dpr |-> dpr,
          clampedDpr |-> clampedDpr,
          fpsEstimate |-> fpsEstimate * 10,
          tier |-> tier,
          config |-> getQualityConfig(tier) ]

InitCaps ==
    /\ store = initialState
    /\ op = [name |-> "create", a |-> 0, b |-> 0, c |-> 0, from |-> "IDLE"]
    /\ nOps = 0
    /\ fn = Unused
    /\ sched = Unused
    /\ hero = Unused
    /\ canvas = Unused
    /\ controls = Unused
    /\ \E env \in Environments :
        caps = [ pc |-> "idle",
                 env |-> env,
                 result |-> NULL,
                 locals |-> NULL,           \* isMobile, dpr, clampedDpr, webglResult
                 acquired |-> 0,            \* contexts obtained from getContext
                 live |-> 0,                \* of those, the ones not yet lost
                 canvases |-> 0,            \* canvases attached to document.body
                 benchmarkStarted |-> FALSE,
                 framesRequested |-> 0,     \* calls of requestAnimationFrame
                 frameCount |-> 0,
                 elapsed |-> NULL ]         \* ms since the benchmark's start time

Resolve(c, result) == [c EXCEPT !.pc = "resolved", !.result = result]

\* an exception leaves the async function: its promise is rejected
Reject(c) == [c EXCEPT !.pc = "rejected"]

\* the call of evaluateDeviceCaps up to its return or to the await of the
\* benchmark, with the synchronous start of benchmarkFps
Evaluate ==
    /\ caps.pc = "idle"
    /\ LET env == caps.env
           isMobile == isMobileUA(env)
           dpr == IF env.devicePixelRatio = 0 THEN 1000 ELSE env.devicePixelRatio
           clampedDpr == clampDpr(dpr, isMobile)
           webglResult == detectWebGLVersion(env)
           probed == [caps EXCEPT
                        !.locals = [ isMobile |-> isMobile, dpr |-> dpr,
                                     clampedDpr |-> clampedDpr,
                                     webglResult |-> webglResult ],
                        !.acquired = webglResult.acquired,
                        !.live = webglResult.live]
           gl == "webgl" \in env.contexts \/ "experimental-webgl" \in env.contexts
       IN  IF ~isBrowser(env)
           THEN caps' = Resolve(caps, ssrCaps)
           ELSE IF env.fault = "userAgent"
           THEN caps' = Reject(caps)
           ELSE IF ~webglResult.available
           THEN caps' = Resolve(probed,
                                unavailableCaps(webglResult, isMobile, dpr, clampedDpr))
           ELSE IF env.impl = "deviceCaps.ts"
           THEN caps' = [probed EXCEPT !.pc = "benchmark",
                                       !.benchmarkStarted = TRUE,
                                       !.framesRequested = 1]
           ELSE IF env.fault = "appendChild"
           THEN caps' = Reject([probed EXCEPT !.benchmarkStarted = TRUE])
           ELSE IF ~gl /\ env.fault = "removeChild"
           THEN caps' = Reject([probed EXCEPT !.benchmarkStarted = TRUE,
                                              !.canvases = 1])
           ELSE IF ~gl
           THEN caps' = Resolve([probed EXCEPT !.benchmarkStarted = TRUE],
                                benchmarkedCaps(env, webglResult, isMobile, dpr,
                                                clampedDpr, 15))
           ELSE caps' = [probed EXCEPT !.pc = "benchmark",
                                       !.benchmarkStarted = TRUE,
                                       !.acquired = @ + 1,
                                       !.live = @ + 1,
                                       !.canvases = 1,
                                       !.frameCount = 1,
                                       !.framesRequested = 1,
                                       !.elapsed = 0]
    /\ UNCHANGED <<store, op, nOps, fn, sched, hero, canvas, controls>>

\* one animation frame of the benchmark; the last one resolves the benchmark
\* and evaluateDeviceCaps with it
BenchmarkFrame ==
    /\ caps.pc = "benchmark"
    /\ LET env == caps.env
           l == caps.locals
           done(c, fps) ==
               Resolve(c, benchmarkedCaps(env, l.webglResult, l.isMobile, l.dpr,
                                          l.clampedDpr, fps))
       IN  IF env.impl = "deviceCaps.ts"
           THEN LET t == IF caps.elapsed = NULL THEN 0
                         ELSE caps.elapsed + env.framePeriod
                    frameCount == caps.frameCount + 1
                IN  IF t < durationMs
                    THEN caps' = [caps EXCEPT !.elapsed = t,
                                              !.frameCount = frameCount,
                                              !.framesRequested = @ + 1]
                    ELSE caps' = done([caps EXCEPT !.elapsed = t,
                                                   !.frameCount = frameCount],
                                      MathRoundDiv(frameCount * 1000, t))
           ELSE LET t == caps.elapsed + env.framePeriod
                    fps == MathRoundDiv(caps.frameCount * 1000, duration)
                IN  IF t >= duration /\ env.fault = "removeChild"
                    THEN \* the callback dies after loseContext: resolve is
                         \* never called and the promise stays pending
                         caps' = [caps EXCEPT
                                    !.pc = "pending forever",
                                    !.elapsed = t,
                                    !.live = IF env.loseContext THEN @ - 1 ELSE @]
                    ELSE IF t >= duration
                    THEN caps' = done([caps EXCEPT
                                          !.elapsed = t,
                                          !.live = IF env.loseContext THEN @ - 1 ELSE @,
                                          !.canvases = 0],
                                      IF fps < 120 THEN fps ELSE 120)
                    ELSE caps' = [caps EXCEPT !.elapsed = t,
                                              !.frameCount = @ + 1,
                                              !.framesRequested = @ + 1]
    /\ UNCHANGED <<store, op, nOps, fn, sched, hero, canvas, controls>>

NextCaps ==
    \/ Evaluate
    \/ BenchmarkFrame

SpecCaps == InitCaps /\ [][NextCaps]_vars

----------------------------------------------------------------------------
(* The frame loop of useInertia (hooks/useInertia.ts) and the per-frame    *)
(* camera update of useCamera (hooks/useCamera.ts), under the animation    *)
(* frames of the browser.  Times in ms.  A callback requested during a     *)
(* frame runs in a later frame; the callbacks of one frame share its       *)
(* timestamp.  Nothing in the repository calls onFrame: it is driven by    *)
(* the render loop of its user, once per frame, in no fixed order with     *)
(* the callback of useInertia.                                             *)

MaxFrameOps == 9

maxDtMs == 50

baseRadius == 10

angularEase == 12

\* ms from one animation frame to the next: a 60 Hz frame, a slow frame,
\* a tab that was in the background
FrameGaps == {16, 50, 5000}

\* the store when the hook mounts: coasting, with a zoom target set
CoastingStore ==
    setZoomTarget(nudgeOrbitFromKeys(initialState, 1, 0, Ms(16)), 5500)

requestAnimationFrame(sc) ==
    [sc EXCEPT !.pending = @ \cup {[id |-> sc.nextId, frame |-> sc.frame]},
               !.nextId = @ + 1]

cancelAnimationFrame(sc, id) ==
    [sc EXCEPT !.pending = { e \in @ : e.id # id }]

\* mutant: start without the test for a running loop
startUnguarded(sc) ==
    IF ~sc.browser THEN sc
    ELSE [requestAnimationFrame(sc) EXCEPT !.lastTsRef = 0,
                                           !.isRunning = TRUE,
                                           !.rafIdRef = sc.nextId]

start(sc) ==
    IF ~sc.browser THEN sc
    ELSE IF sc.rafIdRef # NULL THEN sc
    ELSE [requestAnimationFrame(sc) EXCEPT !.lastTsRef = 0,
                                           !.isRunning = TRUE,
                                           !.rafIdRef = sc.nextId]

\* mutant: stop that forgets the id without cancelling the callback
stopWithoutCancel(sc) == [sc EXCEPT !.rafIdRef = NULL, !.isRunning = FALSE]

stop(sc) ==
    [(IF sc.rafIdRef # NULL THEN cancelAnimationFrame(sc, sc.rafIdRef) ELSE sc)
        EXCEPT !.rafIdRef = NULL, !.isRunning = FALSE]

\* mutant: the frame delta passed on as measured
frameDeltaUnclamped(now, lastTs) == now - lastTs

\* dtMs of tick
frameDelta(now, lastTs) == MathMin(now - lastTs, maxDtMs)

\* mutant: the zoom eased before the inertia is integrated
tickCallsZoomFirst(dtMs) ==
    << [name |-> "commitZoom", dtMs |-> dtMs],
       [name |-> "tickInertia", dtMs |-> dtMs] >>

\* the store actions tick calls, in order
tickCalls(dtMs) ==
    << [name |-> "tickInertia", dtMs |-> dtMs],
       [name |-> "commitZoom", dtMs |-> dtMs] >>

ApplyStoreCall(s, call) ==
    CASE call.name = "tickInertia" -> tickInertia(s, call.dtMs)
      [] call.name = "commitZoom" -> commitZoom(s, call.dtMs)

\* what tick does to the loop: the timestamp recorded, the next frame requested
tickLoop(sc) ==
    [requestAnimationFrame(sc) EXCEPT !.lastTsRef = sc.now,
                                      !.rafIdRef = sc.nextId]

\* the smoothed angles and the radius onFrame computes (the conversion to
\* cartesian coordinates is left out)
onFrame(camera, s, dtMs) ==
    [ smoothTheta |-> easeExp(camera.smoothTheta, s.target.theta, angularEase, dtMs),
      smoothPhi |-> easeExp(camera.smoothPhi, s.target.phi, angularEase, dtMs),
      radius |-> IF IsNaN(s.zoom) THEN NaN
                 ELSE (baseRadius * 1000000) \div clamp(s.zoom, 2000, 10000) ]

Event(name, dt, sc) ==
    [name |-> name, dt |-> dt, wasRunning |-> sc.rafIdRef # NULL]

InitFrame ==
    /\ store = CoastingStore
    /\ op = [name |-> "create", a |-> 0, b |-> 0, c |-> 0, from |-> "IDLE"]
    /\ nOps = 0
    /\ caps = Unused
    /\ fn = Unused
    /\ hero = Unused
    /\ canvas = Unused
    /\ controls = Unused
    /\ \E browser \in BOOLEAN, enabled \in BOOLEAN :
        LET created ==
                [ browser |-> browser,
                  mounted |-> TRUE,
                  enabled |-> enabled,
                  rafIdRef |-> NULL,
                  lastTsRef |-> 0,
                  isRunning |-> FALSE,
                  pending |-> {},        \* callbacks the browser holds for tick
                  nextId |-> 1,
                  now |-> 1000,          \* timestamp of the current frame
                  gap |-> 0,             \* ms since the frame before
                  frame |-> 0,
                  cameraDone |-> FALSE,  \* onFrame has run in this frame
                  camera |-> [smoothTheta |-> 0, smoothPhi |-> 0, radius |-> 2500],
                  log |-> << >>,         \* what has run in this frame, in order
                  last |-> [name |-> "mount", dt |-> NULL, wasRunning |-> FALSE] ]
        IN  \* the effect of the first render
            sched = IF enabled THEN start(created) ELSE stop(created)

Start ==
    /\ nOps < MaxFrameOps
    /\ sched.mounted
    /\ sched' = [start(sched) EXCEPT !.last = Event("start", NULL, sched)]
    /\ nOps' = nOps + 1
    /\ UNCHANGED <<store, op, caps, fn, hero, canvas, controls>>

Stop ==
    /\ nOps < MaxFrameOps
    /\ sched.mounted
    /\ sched' = [stop(sched) EXCEPT !.last = Event("stop", NULL, sched)]
    /\ nOps' = nOps + 1
    /\ UNCHANGED <<store, op, caps, fn, hero, canvas, controls>>

\* the enabled option changes: the effect's cleanup, then the effect
SetEnabled ==
    /\ nOps < MaxFrameOps
    /\ sched.mounted
    /\ \E enabled \in BOOLEAN :
        /\ enabled # sched.enabled
        /\ LET cleaned == stop(sched)
               rerun == IF enabled THEN start(cleaned) ELSE stop(cleaned)
           IN  sched' = [rerun EXCEPT !.enabled = enabled,
                                      !.last = Event("setEnabled", NULL, sched)]
    /\ nOps' = nOps + 1
    /\ UNCHANGED <<store, op, caps, fn, hero, canvas, controls>>

\* the component unmounts: the effect's cleanup
Unmount ==
    /\ nOps < MaxFrameOps
    /\ sched.mounted
    /\ sched' = [stop(sched) EXCEPT !.mounted = FALSE,
                                    !.last = Event("unmount", NULL, sched)]
    /\ nOps' = nOps + 1
    /\ UNCHANGED <<store, op, caps, fn, hero, canvas, controls>>

\* the browser begins the next animation frame
NextFrame ==
    /\ nOps < MaxFrameOps
    /\ sched.browser
    \* every callback due in the current frame has run
    /\ \A e \in sched.pending : e.frame = sched.frame
    /\ sched.frame > 0 => sched.cameraDone
    /\ \E gap \in FrameGaps :
        sched' = [sched EXCEPT !.now = @ + gap,
                               !.gap = gap,
                               !.frame = @ + 1,
                               !.cameraDone = FALSE,
                               !.log = << >>,
                               !.last = Event("frame", NULL, sched)]
    /\ nOps' = nOps + 1
    /\ UNCHANGED <<store, op, caps, fn, hero, canvas, controls>>

\* the browser runs a callback requested in an earlier frame: tick
Tick ==
    /\ nOps < MaxFrameOps
    /\ \E e \in sched.pending :
        /\ e.frame < sched.frame
        /\ LET taken == [sched EXCEPT !.pending = @ \ {e}]
               lastTs == sched.lastTsRef
               dtMs == frameDelta(sched.now, lastTs)
           IN  IF lastTs = 0
               THEN /\ sched' = [tickLoop(taken) EXCEPT
                                    !.last = Event("tick", NULL, sched)]
                    /\ UNCHANGED <<store, op>>
               ELSE /\ LET calls == tickCalls(Ms(dtMs))
                       IN  /\ store' = ApplyStoreCall(
                                           ApplyStoreCall(store, calls[1]), calls[2])
                           /\ op' = Call(calls[2].name, calls[2].dtMs, 0, 0)
                           /\ sched' = [tickLoop(taken) EXCEPT
                                    !.log = @ \o <<calls[1].name, calls[2].name>>,
                                    !.last = Event("tick", dtMs, sched)]
    /\ nOps' = nOps + 1
    /\ UNCHANGED <<caps, fn, hero, canvas, controls>>

\* the render loop calls onFrame, once in a frame
CameraFrame ==
    /\ nOps < MaxFrameOps
    /\ sched.frame > 0
    /\ ~sched.cameraDone
    /\ sched' = [sched EXCEPT !.camera = onFrame(@, store, Ms(sched.gap)),
                              !.cameraDone = TRUE,
                              !.log = Append(@, "camera"),
                              !.last = Event("onFrame", sched.gap, sched)]
    /\ nOps' = nOps + 1
    /\ UNCHANGED <<store, op, caps, fn, hero, canvas, controls>>

NextFrames ==
    \/ Start
    \/ Stop
    \/ SetEnabled
    \/ Unmount
    \/ NextFrame
    \/ Tick
    \/ CameraFrame

SpecFrame == InitFrame /\ [][NextFrames]_vars

----------------------------------------------------------------------------
(* The hero store (useHeroStore in state/heroStore.ts) and the HeroCanvas  *)
(* component (part_004) that initialises it and reports the loss and the   *)
(* restoration of the rendering context.  An error of "" is no error.      *)

heroInitialState ==
    [ isLoaded |-> FALSE,
      isWebGLAvailable |-> FALSE,
      webglVersion |-> 0,
      isMobile |-> FALSE,
      dpr |-> 1000,
      clampedDpr |-> 1000,
      fps |-> 0,
      tier |-> LOW,
      config |-> getQualityConfig(LOW),
      error |-> "" ]

setCaps(h, c) ==
    [h EXCEPT !.isWebGLAvailable = c.isWebGLAvailable,
              !.webglVersion = c.webglVersion,
              !.isMobile = c.isMobile,
              !.dpr = c.dpr,
              !.clampedDpr = c.clampedDpr,
              !.tier = c.tier,
              !.config = c.config,
              !.error = c.reason]

\* mutant: the tier changed under the configuration of the tier before
setTierKeepsConfig(h, tier) == [h EXCEPT !.tier = tier]

setTier(h, tier) == [h EXCEPT !.tier = tier, !.config = getQualityConfig(tier)]

setFps(h, fps) == [h EXCEPT !.fps = fps]

setLoaded(h, loaded) == [h EXCEPT !.isLoaded = loaded]

setError(h, error) == [h EXCEPT !.error = error]

heroReset(h) == heroInitialState

\* mutant: the scene marked loaded whatever the evaluation reported
initializeCapabilitiesAlwaysLoaded(h, outcome) ==
    IF outcome.kind = "rejected"
    THEN setError(h, "Initialization failed: message")
    ELSE setLoaded(setCaps(h, outcome.result), TRUE)

\* initializeCapabilities after its await: outcome is how the promise of
\* evaluateDeviceCaps settled
initializeCapabilities(h, outcome) ==
    IF outcome.kind = "rejected"
    THEN setError(h, "Initialization failed: message")
    ELSE LET withCaps == setCaps(h, outcome.result)
         IN  IF ~outcome.result.isWebGLAvailable
             THEN setError(withCaps, "WebGL unavailable")
             ELSE setLoaded(withCaps, TRUE)

handleContextLost(h) == setError(h, "WebGL context lost")

\* mutant: the restoration that leaves the error standing
handleContextRestoreKeepsError(h) == setLoaded(h, TRUE)

handleContextRestore(h) == setLoaded(setError(h, ""), TRUE)

\* frame rates the benchmark may have measured, in frames per second
BenchmarkResults == {15, 33, 45, 60}

\* how a run of evaluateDeviceCaps in env ends: resolved or rejected or never
\* settled; immediate when it settles without waiting for an animation
\* frame, that is, in the microtasks of the call
evaluationOutcome(env, fps) ==
    LET isMobile == isMobileUA(env)
        dpr == IF env.devicePixelRatio = 0 THEN 1000 ELSE env.devicePixelRatio
        clampedDpr == clampDpr(dpr, isMobile)
        webglResult == detectWebGLVersion(env)
        gl == "webgl" \in env.contexts \/ "experimental-webgl" \in env.contexts
        thrown == [message |-> "message"]
        settled(kind, immediate, result) ==
            [kind |-> kind, immediate |-> immediate, result |-> result]
    IN  IF ~isBrowser(env) THEN settled("resolved", TRUE, ssrCaps)
        ELSE IF env.fault = "userAgent" THEN settled("rejected", TRUE, thrown)
        ELSE IF ~webglResult.available
        THEN settled("resolved", TRUE,
                     unavailableCaps(webglResult, isMobile, dpr, clampedDpr))
        ELSE IF env.impl = "deviceCaps.ts"
        THEN settled("resolved", FALSE,
                     benchmarkedCaps(env, webglResult, isMobile, dpr, clampedDpr, fps))
        ELSE IF env.fault = "appendChild" THEN settled("rejected", TRUE, thrown)
        ELSE IF ~gl /\ env.fault = "removeChild" THEN settled("rejected", TRUE, thrown)
        ELSE IF ~gl
        THEN settled("resolved", TRUE,
                     benchmarkedCaps(env, webglResult, isMobile, dpr, clampedDpr, 15))
        ELSE IF env.fault = "removeChild" THEN settled("never", FALSE, thrown)
        ELSE settled("resolved", FALSE,
                     benchmarkedCaps(env, webglResult, isMobile, dpr, clampedDpr, fps))

\* the component mounts in a browser
EvaluationOutcomes ==
    { evaluationOutcome(env, fps) :
        env \in { e \in Environments : e.browser }, fps \in BenchmarkResults }

\* fps values FpsMonitor reports
ReportedFps == {30, 60}

InitCanvas ==
    /\ store = initialState
    /\ op = [name |-> "mount", a |-> 0, b |-> 0, c |-> 0, from |-> "IDLE"]
    /\ nOps = 0
    /\ fn = Unused
    /\ sched = Unused
    /\ hero = heroInitialState
    /\ controls = Unused
    /\ \E outcome \in EvaluationOutcomes :
        caps = [pc |-> "pending", outcome |-> outcome]
    /\ canvas = [ evaluations |-> 1,     \* calls of evaluateDeviceCaps
                  glRef |-> FALSE,       \* renderer created, listeners attached
                  contextLost |-> FALSE,
                  everLost |-> FALSE,
                  hasError |-> FALSE ]   \* the error boundary has caught

\* an evaluation that settles in the microtasks of the mount has not yet
\* done so: no event or frame can come first
Settling == caps.pc = "pending" /\ caps.outcome.immediate

\* the promise of evaluateDeviceCaps settles and initializeCapabilities resumes
InitializeCapabilities ==
    /\ caps.pc = "pending"
    /\ caps.outcome.kind # "never"
    /\ hero' = initializeCapabilities(hero, caps.outcome)
    /\ caps' = [caps EXCEPT !.pc = caps.outcome.kind]
    /\ op' = Call("initializeCapabilities", 0, 0, 0)
    /\ UNCHANGED <<store, nOps, fn, sched, canvas, controls>>

\* onCreated of the Canvas: the renderer exists, the listeners are attached
CanvasCreated ==
    /\ ~Settling
    /\ ~canvas.glRef /\ ~canvas.hasError
    /\ canvas' = [canvas EXCEPT !.glRef = TRUE]
    /\ op' = Call("handleContextCreated", 0, 0, 0)
    /\ UNCHANGED <<store, nOps, fn, sched, hero, caps, controls>>

\* componentDidCatch of the error boundary around the Canvas
CanvasError ==
    /\ ~canvas.hasError
    /\ canvas' = [canvas EXCEPT !.hasError = TRUE]
    /\ hero' = setError(hero, "3D rendering failed: message")
    /\ op' = Call("componentDidCatch", 0, 0, 0)
    /\ UNCHANGED <<store, nOps, fn, sched, caps, controls>>

\* webglcontextlost on the canvas element
ContextLost ==
    /\ ~Settling
    /\ canvas.glRef /\ ~canvas.contextLost
    /\ hero' = handleContextLost(hero)
    /\ canvas' = [canvas EXCEPT !.contextLost = TRUE, !.everLost = TRUE]
    /\ op' = Call("handleContextLost", 0, 0, 0)
    /\ UNCHANGED <<store, nOps, fn, sched, caps, controls>>

\* webglcontextrestored on the canvas element
ContextRestored ==
    /\ ~Settling
    /\ canvas.glRef /\ canvas.contextLost
    /\ hero' = handleContextRestore(hero)
    /\ canvas' = [canvas EXCEPT !.contextLost = FALSE]
    /\ op' = Call("handleContextRestore", 0, 0, 0)
    /\ UNCHANGED <<store, nOps, fn, sched, caps, controls>>

\* FpsMonitor reports a measurement while the renderer runs
ReportFps ==
    /\ ~Settling
    /\ canvas.glRef
    /\ \E fps \in ReportedFps :
        /\ hero' = setFps(hero, fps)
        /\ op' = Call("setFps", fps, 0, 0)
    /\ UNCHANGED <<store, nOps, fn, sched, caps, canvas, controls>>

NextCanvas ==
    \/ InitializeCapabilities
    \/ CanvasCreated
    \/ CanvasError
    \/ ContextLost
    \/ ContextRestored
    \/ ReportFps

SpecCanvas == InitCanvas /\ [][NextCanvas]_vars

----------------------------------------------------------------------------
(* The starfield (Starfield.tsx): a seeded generator and the star          *)
(* positions computed from it.  The generator's state is an integer and is *)
(* kept exactly; random() is kept as its numerator state - 1 over          *)
(* 2147483646; coordinates are in 1e-3 world units.                        *)

\* a % b of JavaScript: the remainder has the sign of the dividend
JsRem(a, b) == IF a >= 0 THEN a % b ELSE -((-a) % b)

LCG_MODULUS == 2147483647

LCG_MULTIPLIER == 16807

\* (state * 16807) % 2147483647, exact in a double; computed here without a
\* product beyond 32 bits: 2147483647 = 16807 * 127773 + 2836
lcgNext(state) ==
    LET q == LCG_MODULUS \div LCG_MULTIPLIER
        r == LCG_MODULUS % LCG_MULTIPLIER
        t == LCG_MULTIPLIER * (state % q) - r * (state \div q)
    IN  IF t < 0 THEN t + LCG_MODULUS ELSE t

\* mutant: one generator for the module, seeded by its first use only
createSeededRandomShared(seed) ==
    IF fn.pc = "rendered" THEN fn.random
    ELSE LET state == JsRem(seed, LCG_MODULUS)
         IN  IF state <= 0 THEN state + 2147483646 ELSE state

\* the initial state of the closure returned by createSeededRandom(seed)
createSeededRandom(seed) ==
    LET state == JsRem(seed, LCG_MODULUS)
    IN  IF state <= 0 THEN state + 2147483646 ELSE state

\* one call of the closure: the new state, and the value returned as the
\* numerator of (state - 1) / 2147483646
random(state) ==
    LET next == lcgNext(state)
    IN  [state |-> next, value |-> next - 1]

\* a value of random() in 1e-3
Milli(value) == value \div 2147484

RECURSIVE rootSearch(_, _, _, _)
\* the largest r in lo..hi whose n-th power (n = 2 or 3) is at most v
rootSearch(v, n, lo, hi) ==
    IF lo >= hi THEN lo
    ELSE LET mid == (lo + hi + 1) \div 2
             power == IF n = 2 THEN mid * mid ELSE mid * mid * mid
         IN  IF power <= v
             THEN rootSearch(v, n, mid, hi)
             ELSE rootSearch(v, n, lo, mid - 1)

\* Math.sqrt of v >= 0: the integer square root
MathSqrt(v) == rootSearch(v, 2, 0, 46340)

\* Math.cbrt of v >= 0: the integer cube root
MathCbrt(v) == rootSearch(v, 3, 0, 1290)

RECURSIVE lnScaled(_, _)
\* ln(m / 1000) - k * ln 2 in 1e-4, for 0 < m < 1000: m is doubled into
\* [500, 1000), where ln m = 2 (t + t^3/3 + t^5/5) with t = (m - 1) / (m + 1)
lnScaled(m, k) ==
    IF m < 500 THEN lnScaled(2 * m, k + 1)
    ELSE LET t == ((m - 1000) * 10000) \div (m + 1000)
             t2 == (t * t) \div 10000
             t3 == (t * t2) \div 10000
             t5 == (t3 * t2) \div 10000
         IN  2 * (t + t3 \div 3 + t5 \div 5) - k * 6931

\* Math.log of w in 1e-3, 0 < w < 1000; the result in 1e-4
MathLog(w) == lnScaled(w, 0)

RECURSIVE pickPair(_)
\* the do-while of generateStarPositions: pairs are drawn until one falls
\* inside the unit disc.  A pair that is rejected and leaves the generator
\* where it was is drawn again for ever: exits is FALSE.
pickPair(state) ==
    LET r1 == random(state)
        r2 == random(r1.state)
        x1 == 2 * Milli(r1.value) - 1000
        x2 == 2 * Milli(r2.value) - 1000
        w == (x1 * x1 + x2 * x2) \div 1000
    IN  IF w >= 1000
        THEN IF r2.state = state
             THEN [exits |-> FALSE, state |-> state, x1 |-> x1, x2 |-> x2, w |-> w]
             ELSE pickPair(r2.state)
        ELSE [exits |-> TRUE, state |-> r2.state, x1 |-> x1, x2 |-> x2, w |-> w]

\* one iteration of the for loop, from an accepted pair: the position pushed
\* and the state the generator is left in
starPosition(pair, radius) ==
    LET r3 == random(pair.state)
        r4 == random(r3.state)
        sqrtW == IF pair.w = 0 THEN NaN       \* in 1e-2
                 ELSE MathSqrt(((-2) * MathLog(pair.w) * 1000) \div pair.w)
        y == IF IsNaN(sqrtW) THEN NaN ELSE (pair.x1 * sqrtW) \div 100
        z == IF IsNaN(sqrtW) THEN NaN ELSE (pair.x2 * sqrtW) \div 100
        x == 2 * Milli(r3.value) - 1000
        length == IF IsNaN(y) THEN NaN ELSE MathSqrt(x * x + y * y + z * z)
        r == radius * MathCbrt(Milli(r4.value) * 1000000)
        coordinate(c) == IF IsNaN(length) \/ length = 0 THEN NaN
                         ELSE (c * r) \div length
    IN  [ state |-> r4.state,
          position |-> <<coordinate(x), coordinate(y), coordinate(z)>> ]

RECURSIVE pushStars(_, _, _, _)
pushStars(positions, count, radius, state) ==
    IF Len(positions) >= count
    THEN [returns |-> TRUE, positions |-> positions, state |-> state]
    ELSE LET pair == pickPair(state)
         IN  IF ~pair.exits
             THEN [returns |-> FALSE, positions |-> positions, state |-> state]
             ELSE LET star == starPosition(pair, radius)
                  IN  pushStars(Append(positions, star.position), count, radius,
                                star.state)

\* generateStarPositions(count, radius, random), random being a closure in
\* the given state: whether the call returns, the positions, and the state
\* the closure is left in
generateStarPositions(count, radius, state) == pushStars(<<>>, count, radius, state)

\* bound on the number of stars of a run (config.particles)
MaxCount == 3

ParticleCounts == 0..MaxCount

Radii == {60, 100}

Seeds == {1337, 1, 0, -1, 2147483647, -2147483646}

NoRun == [deps |-> <<>>, starPositions |-> <<>>]

InitStars ==
    /\ store = initialState
    /\ op = [name |-> "mount", a |-> 0, b |-> 0, c |-> 0, from |-> "IDLE"]
    /\ nOps = 0
    /\ caps = Unused
    /\ sched = Unused
    /\ hero = Unused
    /\ canvas = Unused
    /\ controls = Unused
    /\ fn = [ pc |-> "mounted",
              deps |-> <<>>,           \* [config.particles, radius, seed]
              random |-> 0,            \* state of the closure last created
              starPositions |-> <<>>,
              first |-> NoRun,         \* the first run that returned
              rerun |-> FALSE ]        \* this run repeats the inputs of first

\* the factory of the starPositions memo runs: on a mount, or on a render
\* with a changed particle count, radius or seed
StarPositions ==
    /\ fn.pc # "spinning"
    /\ \E count \in ParticleCounts, radius \in Radii, seed \in Seeds :
        LET run == generateStarPositions(count, radius, createSeededRandom(seed))
            deps == <<count, radius, seed>>
        IN  /\ fn' = IF run.returns
                     THEN [ pc |-> "rendered",
                            deps |-> deps,
                            random |-> run.state,
                            starPositions |-> run.positions,
                            first |-> IF fn.first = NoRun
                                      THEN [deps |-> deps,
                                            starPositions |-> run.positions]
                                      ELSE fn.first,
                            rerun |-> fn.first # NoRun /\ fn.first.deps = deps ]
                     ELSE [fn EXCEPT !.pc = "spinning", !.deps = deps,
                                     !.random = run.state]
            /\ op' = Call("starPositions", count, radius, seed)
    /\ UNCHANGED <<store, nOps, caps, sched, hero, canvas, controls>>

NextStars == StarPositions

SpecStars == InitStars /\ [][NextStars]_vars

----------------------------------------------------------------------------
(* The pinch metrics of the input adapter (utils/interactions.ts).  Touch  *)
(* coordinates are whole CSS pixels; distances are in 1e-2 px, scales in   *)
(* 1e-3 and the centre in 1e-1 px.                                         *)

\* the quotient of a positive number by zero
Infinity == 2147483647

\* a / b of two non-negative numbers, the quotient in 1/unit
JsDiv(a, b, unit) ==
    IF IsNaN(a) \/ IsNaN(b) THEN NaN
    ELSE IF b = 0 THEN (IF a = 0 THEN NaN ELSE Infinity)
    ELSE (a * unit) \div b

\* a - b, b finite
JsMinus(a, b) == IF IsNaN(a) THEN NaN ELSE IF a = Infinity THEN Infinity ELSE a - b

\* an absent prev argument
undefined == [defined |-> FALSE]

\* the null computePinch returns for fewer than two touches
NullPinch == [isNull |-> TRUE]

\* computePinch(touches, prev): null, or the metrics and the state for the
\* next call
computePinch(touches, prev) ==
    IF Len(touches) < 2 THEN NullPinch
    ELSE LET touch1 == touches[1]
             touch2 == touches[2]
             dx == touch2.clientX - touch1.clientX
             dy == touch2.clientY - touch1.clientY
             distance == MathSqrt((dx * dx + dy * dy) * 10000)
             prevDistance == IF prev.defined THEN prev.distance ELSE distance
             scale == JsDiv(distance, prevDistance, 1000)
             deltaScale == JsMinus(scale, IF prev.defined THEN 1000 ELSE 0)
             center == [ x |-> (touch1.clientX + touch2.clientX) * 5,
                         y |-> (touch1.clientY + touch2.clientY) * 5 ]
         IN  [ isNull |-> FALSE,
               metrics |-> [scale |-> scale, deltaScale |-> deltaScale,
                            center |-> center],
               state |-> [defined |-> TRUE, distance |-> distance] ]

TouchPoints ==
    { [clientX |-> p[1], clientY |-> p[2]] : p \in {<<0, 0>>, <<3, 4>>, <<30, 40>>, <<0, 100>>} }

\* the touch lists of an event: none, one or two fingers down
TouchLists ==
    {<<>>} \cup { <<a>> : a \in TouchPoints }
           \cup { <<a, b>> : a \in TouchPoints, b \in TouchPoints }

InitPinch ==
    /\ store = initialState
    /\ op = [name |-> "create", a |-> 0, b |-> 0, c |-> 0, from |-> "IDLE"]
    /\ nOps = 0
    /\ caps = Unused
    /\ sched = Unused
    /\ hero = Unused
    /\ canvas = Unused
    /\ controls = Unused
    /\ fn = [ pc |-> "idle",
              touches |-> <<>>,
              prev |-> undefined,      \* the argument of the last call
              state |-> undefined,     \* the gesture state kept for the next call
              result |-> NullPinch ]

\* a gesture starts: computePinch is called without a previous state
PinchStart ==
    /\ \E touches \in TouchLists :
        LET result == computePinch(touches, undefined)
        IN  fn' = [ pc |-> "returned",
                    touches |-> touches,
                    prev |-> undefined,
                    state |-> IF result.isNull THEN undefined ELSE result.state,
                    result |-> result ]
    /\ op' = Call("computePinch", 0, 0, 0)
    /\ UNCHANGED <<store, nOps, caps, sched, hero, canvas, controls>>

\* the gesture goes on: computePinch is called with the state the previous
\* call returned
PinchMove ==
    /\ fn.state.defined
    /\ \E touches \in TouchLists :
        LET result == computePinch(touches, fn.state)
        IN  fn' = [ pc |-> "returned",
                    touches |-> touches,
                    prev |-> fn.state,
                    state |-> IF result.isNull THEN undefined ELSE result.state,
                    result |-> result ]
    /\ op' = Call("computePinch", 1, 0, 0)
    /\ UNCHANGED <<store, nOps, caps, sched, hero, canvas, controls>>

NextPinch ==
    \/ PinchStart
    \/ PinchMove

SpecPinch == InitPinch /\ [][NextPinch]_vars

\* The generator by itself: createSeededRandom(seed), then calls of the
\* closure it returns.
MaxCalls == 12

GeneratorSeeds ==
    {1337, 42, 2, 1, 0, -1, -2, 2147483646, 2147483647, -2147483646, -2147483647}

InitRandom ==
    /\ store = initialState
    /\ op = [name |-> "create", a |-> 0, b |-> 0, c |-> 0, from |-> "IDLE"]
    /\ nOps = 0
    /\ caps = Unused
    /\ sched = Unused
    /\ hero = Unused
    /\ canvas = Unused
    /\ controls = Unused
    /\ \E seed \in GeneratorSeeds :
        fn = [ pc |-> "created",
               seed |-> seed,
               state |-> createSeededRandom(seed),
               calls |-> 0,
               value |-> 0 ]      \* the value last returned, once calls > 0

\* one call of the closure
Random ==
    /\ fn.calls < MaxCalls
    /\ LET call == random(fn.state)
       IN  fn' = [fn EXCEPT !.pc = "returned", !.state = call.state,
                            !.calls = @ + 1, !.value = call.value]
    /\ op' = Call("random", fn.calls + 1, 0, 0)
    /\ UNCHANGED <<store, nOps, caps, sched, hero, canvas, controls>>

NextRandom == Random

SpecRandom == InitRandom /\ [][NextRandom]_vars

----------------------------------------------------------------------------
(* OrbitControls (part_005): the DOM events of its container, its refs,    *)
(* and the animation-frame callback that delivers the batched pointer      *)
(* move.  Positions are in 1e-3 px, times in ms.  A TouchEvent reaches the *)
(* pointer handlers as an object with pointerId 1, isPrimary true and the  *)
(* coordinates of its first touch; spreading the event copies none of its  *)
(* accessor properties, so that object has no touches list.                *)

MaxControlOps == 6

\* an absent position: null in a ref, null from normalizePointer
NoPoint == [defined |-> FALSE]

NoMove == [defined |-> FALSE]

NoCall == [name |-> "none", dx |-> 0, dy |-> 0, dtMs |-> 0, ts |-> 0]

PointerPositions ==
    { [defined |-> TRUE, x |-> p[1], y |-> p[2]] :
        p \in {<<0, 0>>, <<8000, 4000>>} }

\* the pointers of the page: a primary pointer, a second finger, and the
\* identity the touch handlers give their events
Pointers ==
    { [pointerId |-> 7, isPrimary |-> TRUE],
      [pointerId |-> 8, isPrimary |-> FALSE],
      [pointerId |-> 1, isPrimary |-> TRUE] }

EndEventTypes == {"pointerup", "pointercancel", "lostpointercapture", "pointerleave"}

TouchEndEventTypes == {"touchend", "touchcancel"}

\* mutant: a pointerdown during a drag begins another drag
handlePointerDownWhileDragging(c, e, captures) ==
    IF ~c.enabled \/ ~e.isPrimary \/ ~e.pos.defined
    THEN [c |-> c, call |-> NoCall]
    ELSE [ c |-> [c EXCEPT !.capturedPointerIdRef =
                               IF captures THEN e.pointerId ELSE @,
                           !.isDraggingRef = TRUE,
                           !.lastPointerRef = e.pos,
                           !.lastTimestampRef = c.now],
           call |-> [NoCall EXCEPT !.name = "beginDrag", !.ts = c.now] ]

\* captures: whether setPointerCapture succeeds
handlePointerDown(c, e, captures) ==
    IF ~c.enabled \/ c.isDraggingRef THEN [c |-> c, call |-> NoCall]
    ELSE IF ~e.isPrimary THEN [c |-> c, call |-> NoCall]
    ELSE IF ~e.pos.defined THEN [c |-> c, call |-> NoCall]
    ELSE [ c |-> [c EXCEPT !.capturedPointerIdRef =
                               IF captures THEN e.pointerId ELSE @,
                           !.isDraggingRef = TRUE,
                           !.lastPointerRef = e.pos,
                           !.lastTimestampRef = c.now],
           call |-> [NoCall EXCEPT !.name = "beginDrag", !.ts = c.now] ]

\* mutant: a move that finds one waiting is dropped
handlePointerMoveKeepsFirst(c, e) ==
    IF ~c.enabled \/ ~c.isDraggingRef \/ ~e.isPrimary \/ ~e.pos.defined
    THEN [c |-> c, call |-> NoCall]
    ELSE LET queued == IF c.pendingMoveRef.defined THEN c
                       ELSE [c EXCEPT !.pendingMoveRef =
                                [defined |-> TRUE, pos |-> e.pos, ts |-> c.now]]
         IN  [ c |-> IF c.rafIdRef = NULL
                     THEN [requestAnimationFrame(queued) EXCEPT !.rafIdRef = c.nextId]
                     ELSE queued,
               call |-> NoCall ]

handlePointerMove(c, e) ==
    IF ~c.enabled \/ ~c.isDraggingRef \/ ~e.isPrimary
    THEN [c |-> c, call |-> NoCall]
    ELSE IF ~e.pos.defined THEN [c |-> c, call |-> NoCall]
    ELSE LET queued == [c EXCEPT !.pendingMoveRef =
                            [defined |-> TRUE, pos |-> e.pos, ts |-> c.now]]
         IN  [ c |-> IF c.rafIdRef = NULL
                     THEN [requestAnimationFrame(queued) EXCEPT !.rafIdRef = c.nextId]
                     ELSE queued,
               call |-> NoCall ]

handlePointerEnd(c, e) ==
    IF ~c.enabled \/ ~c.isDraggingRef THEN [c |-> c, call |-> NoCall]
    ELSE IF c.capturedPointerIdRef # NULL /\ e.pointerId # c.capturedPointerIdRef
    THEN [c |-> c, call |-> NoCall]
    ELSE [ c |-> [(IF c.rafIdRef # NULL
                   THEN cancelAnimationFrame(c, c.rafIdRef) ELSE c)
                    EXCEPT !.capturedPointerIdRef = NULL,
                           !.rafIdRef = NULL,
                           !.isDraggingRef = FALSE,
                           !.lastPointerRef = NoPoint,
                           !.lastTimestampRef = NULL,
                           !.pendingMoveRef = NoMove],
           call |-> [NoCall EXCEPT !.name = "endDrag", !.ts = c.now] ]

\* the frame callback
processPendingMove(c) ==
    IF \/ ~c.pendingMoveRef.defined
       \/ ~c.isDraggingRef
       \/ ~c.lastPointerRef.defined
       \/ c.lastTimestampRef = NULL
    THEN [c |-> [c EXCEPT !.rafIdRef = NULL], call |-> NoCall]
    ELSE LET pos == c.pendingMoveRef.pos
             ts == c.pendingMoveRef.ts
             dx == pos.x - c.lastPointerRef.x
             dy == pos.y - c.lastPointerRef.y
             dtMs == MathMin(ts - c.lastTimestampRef, 50)
         IN  [ c |-> [c EXCEPT !.lastPointerRef = pos,
                               !.lastTimestampRef = ts,
                               !.pendingMoveRef = NoMove,
                               !.rafIdRef = NULL],
               call |-> [NoCall EXCEPT !.name = "updateDrag", !.dx = dx,
                                       !.dy = dy, !.dtMs = Ms(dtMs)] ]

\* the cleanup of the listener effect, then the cleanup of the effect on
\* enabled
cleanup(c) ==
    [(IF c.rafIdRef # NULL THEN cancelAnimationFrame(c, c.rafIdRef) ELSE c)
        EXCEPT !.rafIdRef = NULL,
               !.isDraggingRef = FALSE,
               !.lastPointerRef = NoPoint,
               !.lastTimestampRef = NULL,
               !.pendingMoveRef = NoMove,
               !.capturedPointerIdRef = NULL]

\* the call a handler makes on the store
ApplyControlsCall(s, call) ==
    CASE call.name = "none" -> s
      [] call.name = "beginDrag" -> beginDrag(s, call.ts)
      [] call.name = "updateDrag" -> updateDrag(s, call.dx, call.dy, call.dtMs)
      [] call.name = "endDrag" -> endDrag(s, call.ts)

\* ms between two animation frames: a 60 Hz frame, a stalled page
ControlFrameGaps == {16, 100}

InitControls ==
    /\ store = initialState
    /\ op = [name |-> "create", a |-> 0, b |-> 0, c |-> 0, from |-> "IDLE"]
    /\ nOps = 0
    /\ caps = Unused
    /\ fn = Unused
    /\ sched = Unused
    /\ hero = Unused
    /\ canvas = Unused
    /\ controls =
          [ mounted |-> TRUE,
            enabled |-> TRUE,
            isDraggingRef |-> FALSE,
            lastPointerRef |-> NoPoint,
            lastTimestampRef |-> NULL,
            capturedPointerIdRef |-> NULL,
            rafIdRef |-> NULL,
            pendingMoveRef |-> NoMove,
            pending |-> {},            \* callbacks the browser holds
            nextId |-> 1,
            frame |-> 0,
            now |-> 1000,              \* performance.now()
            \* history
            latest |-> NoPoint,        \* position of the last primary move event
            updatesInFrame |-> 0,      \* updateDrag calls since the frame began
            moves |-> 0,               \* move events since the frame began, up to 2
            open |-> FALSE,            \* a beginDrag was called, no endDrag since
            cut |-> FALSE,             \* the open drag lost its tracking to a cleanup
            gesturePointer |-> NULL,   \* pointerId of the event that began the drag
            last |-> [ event |-> "mount", call |-> NoCall, from |-> NoPoint,
                       openBefore |-> FALSE, cutBefore |-> FALSE,
                       ofGesture |-> FALSE, moves |-> 0 ] ]

\* the step of a handler: its call reaches the store, the history follows
Handled(event, e, h) ==
    /\ store' = ApplyControlsCall(store, h.call)
    /\ controls' =
          [h.c EXCEPT
              !.latest = IF event \in {"pointermove", "touchmove"}
                            /\ e.isPrimary /\ e.pos.defined
                         THEN e.pos ELSE @,
              !.updatesInFrame = IF h.call.name = "updateDrag" THEN @ + 1 ELSE @,
              !.moves = IF event \in {"pointermove", "touchmove"}
                        THEN MathMin(@ + 1, 2) ELSE @,
              !.open = IF h.call.name = "beginDrag" THEN TRUE
                       ELSE IF h.call.name = "endDrag" THEN FALSE ELSE @,
              !.cut = IF h.call.name \in {"beginDrag", "endDrag"} THEN FALSE ELSE @,
              !.gesturePointer = IF h.call.name = "beginDrag" THEN e.pointerId ELSE @,
              !.last = [ event |-> event, call |-> h.call,
                         from |-> controls.lastPointerRef,
                         openBefore |-> controls.open,
                         cutBefore |-> controls.cut,
                         ofGesture |-> e.pointerId = controls.gesturePointer,
                         moves |-> controls.moves ] ]
    /\ op' = Call(event, h.call.dx, h.call.dy, h.call.dtMs)
    /\ nOps' = nOps + 1
    /\ UNCHANGED <<caps, fn, sched, hero, canvas>>

Listening == nOps < MaxControlOps /\ controls.mounted

PointerDown ==
    /\ Listening
    /\ \E p \in Pointers, pos \in PointerPositions, captures \in BOOLEAN :
        LET e == [pointerId |-> p.pointerId, isPrimary |-> p.isPrimary, pos |-> pos]
        IN  Handled("pointerdown", e, handlePointerDown(controls, e, captures))

PointerMove ==
    /\ Listening
    /\ \E p \in Pointers, pos \in PointerPositions :
        LET e == [pointerId |-> p.pointerId, isPrimary |-> p.isPrimary, pos |-> pos]
        IN  Handled("pointermove", e, handlePointerMove(controls, e))

PointerEnd ==
    /\ Listening
    /\ \E type \in EndEventTypes, p \in Pointers :
        LET e == [pointerId |-> p.pointerId, isPrimary |-> p.isPrimary, pos |-> NoPoint]
        IN  Handled(type, e, handlePointerEnd(controls, e))

\* handleTouchStart: touches[0] may be absent; the object it builds has no
\* currentTarget, so setPointerCapture throws and nothing is captured
TouchStart ==
    /\ Listening
    /\ \E pos \in PointerPositions \cup {NoPoint} :
        LET e == [pointerId |-> 1, isPrimary |-> TRUE, pos |-> pos]
        IN  Handled("touchstart", e, handlePointerDown(controls, e, FALSE))

TouchMove ==
    /\ Listening
    /\ \E pos \in PointerPositions :
        LET e == [pointerId |-> 1, isPrimary |-> TRUE, pos |-> pos]
        IN  Handled("touchmove", e, handlePointerMove(controls, e))

TouchEnd ==
    /\ Listening
    /\ \E type \in TouchEndEventTypes :
        LET e == [pointerId |-> 1, isPrimary |-> TRUE, pos |-> NoPoint]
        IN  Handled(type, e, handlePointerEnd(controls, e))

\* the enabled prop changes: the handlers are rebuilt, the listeners are
\* re-attached, and both cleanups run
SetControlsEnabled ==
    /\ Listening
    /\ controls' = [cleanup(controls) EXCEPT
                       !.enabled = ~controls.enabled,
                       !.cut = controls.open,
                       !.last = [ event |-> "enabled", call |-> NoCall,
                                  from |-> controls.lastPointerRef,
                                  openBefore |-> controls.open,
                                  cutBefore |-> controls.cut,
                                  ofGesture |-> FALSE, moves |-> controls.moves ] ]
    /\ op' = Call("enabled", 0, 0, 0)
    /\ nOps' = nOps + 1
    /\ UNCHANGED <<store, caps, fn, sched, hero, canvas>>

UnmountControls ==
    /\ Listening
    /\ controls' = [cleanup(controls) EXCEPT
                       !.mounted = FALSE,
                       !.cut = controls.open,
                       !.last = [ event |-> "unmount", call |-> NoCall,
                                  from |-> controls.lastPointerRef,
                                  openBefore |-> controls.open,
                                  cutBefore |-> controls.cut,
                                  ofGesture |-> FALSE, moves |-> controls.moves ] ]
    /\ op' = Call("unmount", 0, 0, 0)
    /\ nOps' = nOps + 1
    /\ UNCHANGED <<store, caps, fn, sched, hero, canvas>>

\* the browser's next animation frame: the callback it holds, if any, runs
AnimationFrame ==
    /\ nOps < MaxControlOps
    /\ \E gap \in ControlFrameGaps :
        LET began == [controls EXCEPT !.frame = @ + 1, !.now = @ + gap,
                                      !.pending = {}]
            h == IF controls.pending = {}
                 THEN [c |-> began, call |-> NoCall]
                 ELSE processPendingMove(began)
        IN  /\ store' = ApplyControlsCall(store, h.call)
            /\ controls' =
                  [h.c EXCEPT
                      !.updatesInFrame = IF h.call.name = "updateDrag" THEN 1 ELSE 0,
                      !.moves = 0,
                      !.last = [ event |-> "frame", call |-> h.call,
                                 from |-> controls.lastPointerRef,
                                 openBefore |-> controls.open,
                                 cutBefore |-> controls.cut,
                                 ofGesture |-> FALSE, moves |-> controls.moves ] ]
            /\ op' = Call("frame", h.call.dx, h.call.dy, h.call.dtMs)
    /\ nOps' = nOps + 1
    /\ UNCHANGED <<caps, fn, sched, hero, canvas>>

NextControls ==
    \/ PointerDown
    \/ PointerMove
    \/ PointerEnd
    \/ TouchStart
    \/ TouchMove
    \/ TouchEnd
    \/ SetControlsEnabled
    \/ UnmountControls
    \/ AnimationFrame

SpecControls == InitControls /\ [][NextControls]_vars

----------------------------------------------------------------------------
(* Runtime configuration: setConfig with partials that change the zoom and *)
(* elevation bounds, interleaved with drags and zoom requests.             *)

MaxConfigOps == 4

\* Partial<InteractionConfig> values that widen, narrow and shift the bounds
BoundPartials ==
    { [dragSensitivity |-> 1000],
      [minZoom |-> 1000, maxZoom |-> 12000],
      [maxZoom |-> 3000],
      [minZoom |-> 5000],
      [minElevationDeg |-> -5, maxElevationDeg |-> 5],
      [minElevationDeg |-> 10] }

SetConfigBounds ==
    /\ nOps < MaxConfigOps
    /\ \E partial \in BoundPartials :
        /\ store' = setConfig(store, partial)
        /\ op' = Call("setConfig", 0, 0, 0)
    /\ nOps' = nOps + 1
    /\ UNCHANGED outsideStore

ConfigOrbitCall ==
    /\ nOps < MaxConfigOps
    /\ \E call \in OrbitCalls :
        /\ store' = ApplyOrbitCall(store, call)
        /\ op' = Call(call.name, call.a, call.b, call.c)
    /\ nOps' = nOps + 1
    /\ UNCHANGED outsideStore

ConfigZoomTarget ==
    /\ nOps < MaxConfigOps
    /\ \E zoom \in ZoomRequests :
        /\ store' = setZoomTarget(store, zoom)
        /\ op' = Call("setZoomTarget", zoom, 0, 0)
    /\ nOps' = nOps + 1
    /\ UNCHANGED outsideStore

NextConfig ==
    \/ SetConfigBounds
    \/ ConfigOrbitCall
    \/ ConfigZoomTarget

SpecConfig == Init /\ [][NextConfig]_vars

----------------------------------------------------------------------------
(* The hero store alone: its six actions called in any order, setCaps with *)
(* the DeviceCaps evaluateDeviceCaps resolves to in any environment.       *)

MaxHeroOps == 3

\* DeviceCaps of every resolved evaluation, outside a browser included
EvaluatedCaps ==
    { evaluationOutcome(env, fps).result :
        env \in { e \in Environments :
                    evaluationOutcome(e, 60).kind = "resolved" },
        fps \in BenchmarkResults }

\* messages passed to setError; setError() with no argument stores ""
ErrorMessages == {"", "WebGL context lost"}

InitHero ==
    /\ store = initialState
    /\ op = [name |-> "create", a |-> 0, b |-> 0, c |-> 0, from |-> "IDLE"]
    /\ nOps = 0
    /\ caps = Unused
    /\ fn = Unused
    /\ sched = Unused
    /\ hero = heroInitialState
    /\ canvas = Unused
    /\ controls = Unused

HeroCall(name) ==
    /\ nOps < MaxHeroOps
    /\ nOps' = nOps + 1
    /\ op' = Call(name, 0, 0, 0)
    /\ UNCHANGED <<store, caps, fn, sched, canvas, controls>>

SetCaps ==
    /\ \E c \in EvaluatedCaps : hero' = setCaps(hero, c)
    /\ HeroCall("setCaps")

SetTier ==
    /\ \E tier \in QualityTier : hero' = setTier(hero, tier)
    /\ HeroCall("setTier")

SetFps ==
    /\ \E fps \in ReportedFps : hero' = setFps(hero, fps)
    /\ HeroCall("setFps")

SetLoaded ==
    /\ \E loaded \in BOOLEAN : hero' = setLoaded(hero, loaded)
    /\ HeroCall("setLoaded")

SetError ==
    /\ \E error \in ErrorMessages : hero' = setError(hero, error)
    /\ HeroCall("setError")

HeroReset ==
    /\ hero' = heroReset(hero)
    /\ HeroCall("reset")

NextHero ==
    \/ SetCaps
    \/ SetTier
    \/ SetFps
    \/ SetLoaded
    \/ SetError
    \/ HeroReset

SpecHero == InitHero /\ [][NextHero]_vars

----------------------------------------------------------------------------
(* Zoom easing alone: a zoom level, a new zoom target, then commitZoom     *)
(* once per frame with a constant frame interval and no other operation.   *)

\* zoom levels requested before the easing starts: ZoomRequests, and two
\* that end close to another
EaseRequests == ZoomRequests \cup {4000, 5510}

\* frame intervals of the easing: none, a frame, the clamped maximum, and
\* one so long that the exponential has decayed to nothing
EaseDts == TickDts \cup {Ms(5000)}

\* the stores left by a zoom that has settled on one request when the next
\* request arrives
EaseStarts ==
    { setZoomTarget(commitZoom(setZoomTarget(initialState, z1), Ms(5000)), z2) :
        z1 \in EaseRequests, z2 \in EaseRequests }

InitEase ==
    /\ store \in EaseStarts
    /\ op = [name |-> "setZoomTarget", a |-> 0, b |-> 0, c |-> 0, from |-> "IDLE"]
    /\ nOps = 0
    /\ caps = Unused
    /\ fn = Unused
    /\ sched = Unused
    /\ hero = Unused
    /\ canvas = Unused
    /\ controls = Unused

CommitTick ==
    /\ \E dtMs \in EaseDts :
        /\ op.name = "commitZoom" => dtMs = op.a
        /\ store' = commitZoom(store, dtMs)
        /\ op' = Call("commitZoom", dtMs, 0, 0)
    /\ UNCHANGED nOps
    /\ UNCHANGED outsideStore

NextEase == CommitTick

SpecEase == InitEase /\ [][NextEase]_vars /\ WF_vars(CommitTick)

----------------------------------------------------------------------------
(* Properties *)

Finite(x) == ~IsNaN(x)

\* |velocity.theta| and |velocity.phi| are both below 1e-4 rad/s
BelowEpsilon(v) ==
    /\ Finite(v.theta) /\ -VELOCITY_EPSILON < v.theta /\ v.theta < VELOCITY_EPSILON
    /\ Finite(v.phi) /\ -VELOCITY_EPSILON < v.phi /\ v.phi < VELOCITY_EPSILON

ZeroVelocity == [theta |-> 0, phi |-> 0]

\* C1: in every reachable state target.phi lies within [minPhi, maxPhi]
\* (the elevation bounds stay at their defaults of -60 and 60 degrees).
C1_PhiWithinElevationLimits ==
    /\ Finite(store.target.phi)
    /\ degToRad(-60) <= store.target.phi
    /\ store.target.phi <= degToRad(60)

\* C2: endDrag, called in any state and with any velocity, leaves the
\* machine in IDLE or INERTIA, never in DRAGGING.
C2_EndDragNeverDragging ==
    op.name = "endDrag" => store.state \in {"IDLE", "INERTIA"}

C2_Witness ==
    /\ op.name = "endDrag"
    /\ op.from = "IDLE"
    /\ store.state = "INERTIA"

C4_EndDragThreshold ==
    [][ (op'.name = "endDrag" /\ store.state = "DRAGGING") =>
            /\ store'.state = IF BelowEpsilon(store.velocity)
                              THEN "IDLE" ELSE "INERTIA"
            /\ store'.velocity = store.velocity ]_vars

C4_Witness ==
    /\ op.name = "endDrag"
    /\ op.from = "DRAGGING"
    /\ store.state = "IDLE"
    /\ store.velocity # ZeroVelocity

\* C5: the machine starts in IDLE; beginDrag(ts) from IDLE or INERTIA moves
\* it to DRAGGING with velocity exactly (0,0) and lastTs = ts.
C5_BeginDrag ==
    /\ op.name = "create" => store.state = "IDLE"
    /\ (op.name = "beginDrag" /\ op.from \in {"IDLE", "INERTIA"}) =>
            /\ store.state = "DRAGGING"
            /\ store.velocity = ZeroVelocity
            /\ store.lastTs = op.a

C5_Witness ==
    /\ op.name = "beginDrag"
    /\ op.from = "INERTIA"
    /\ store.state = "DRAGGING"
    /\ store.lastTs = 16

\* the velocity tickInertia computes before its stop test
Damped(v, damping, dtMs) ==
    [ theta |-> FScale(v.theta, MathPowDamping(damping, dtMs), 10000),
      phi |-> FScale(v.phi, MathPowDamping(damping, dtMs), 10000) ]

\* C6: a tickInertia that moves INERTIA to IDLE sets the velocity to exactly
\* (0,0); when the damped velocity is not below epsilon on both axes the
\* machine stays in INERTIA with the damped velocity.
C6_TickStopSnapsVelocity ==
    [][ (op'.name = "tickInertia" /\ store.state = "INERTIA") =>
            /\ store'.state \in {"IDLE", "INERTIA"}
            /\ store'.state = "IDLE" => store'.velocity = ZeroVelocity
            /\ ~BelowEpsilon(Damped(store.velocity, store.config.damping, op'.a)) =>
                    /\ store'.state = "INERTIA"
                    /\ store'.velocity =
                         Damped(store.velocity, store.config.damping, op'.a) ]_vars

C6_Witness ==
    /\ op.name = "tickInertia"
    /\ op.from = "INERTIA"
    /\ store.state = "IDLE"
    /\ store.velocity = ZeroVelocity
    /\ nOps > 0

\* C7: in every reachable state target.theta lies in (-PI, PI]: the value
\* -PI itself is never stored.
C7_ThetaHalfOpen ==
    /\ Finite(store.target.theta)
    /\ -PI < store.target.theta
    /\ store.target.theta <= PI

\* C8: after any sequence of store operations with finite arguments
\* (dtMs = 0 included) target.theta, target.phi and both velocity
\* components are finite numbers.
C8_AllFinite ==
    /\ Finite(store.target.theta)
    /\ Finite(store.target.phi)
    /\ Finite(store.velocity.theta)
    /\ Finite(store.velocity.phi)

\* what updateDrag(dxPx, dyPx, dtMs) is to do to a store s, velocity being
\* the angular deltas divided by dtMs / 1000 seconds
DragDelta(s, px) ==
    Scale(px, Scale(s.config.dragSensitivity, DRAG_SENSITIVITY_TO_RAD_PER_PX, 1000), 1000)

DragEffect(s, t, dxPx, dyPx, dtMs) ==
    /\ t.state = "DRAGGING"
    /\ t.target.theta = wrapTheta(FAdd(s.target.theta, -DragDelta(s, dxPx)))
    /\ t.target.phi = clamp(FAdd(s.target.phi, DragDelta(s, dyPx)),
                            degToRad(s.config.minElevationDeg),
                            degToRad(s.config.maxElevationDeg))
    /\ t.velocity.theta = DivSec(-DragDelta(s, dxPx), dtMs)
    /\ t.velocity.phi = DivSec(DragDelta(s, dyPx), dtMs)

\* beginDrag, updateDrag(100, 0, 16), endDrag at the default sensitivity
\* ends in INERTIA with a negative velocity.theta
DragScenario ==
    ( /\ op.name = "updateDrag" /\ op.from = "DRAGGING"
      /\ op.a = 100000 /\ op.b = 0 /\ op.c = Ms(16)
      /\ store.config.dragSensitivity = DEFAULT_CONFIG.dragSensitivity
      /\ op'.name = "endDrag" ) =>
        /\ store'.state = "INERTIA"
        /\ Finite(store'.velocity.theta)
        /\ store'.velocity.theta < 0

\* C9 as stated: in DRAGGING, updateDrag(dx, dy, dtMs) with dtMs > 0 keeps
\* the state DRAGGING, adds -dx*s*0.005 to target.theta (wrapped) and
\* +dy*s*0.005 to target.phi (clamped) and sets the velocity to those deltas
\* divided by dt in seconds; hence the drag scenario ends in INERTIA with a
\* negative velocity.theta.
C9_UpdateDragAnyPositiveDt ==
    [][ /\ (op'.name = "updateDrag" /\ store.state = "DRAGGING" /\ op'.c > 0) =>
                DragEffect(store, store', op'.a, op'.b, op'.c)
        /\ DragScenario ]_vars

\* C9 amended: the same for dtMs >= 0.001 (dt of at least 1e-6 s, the floor
\* updateDrag puts under dt before dividing).
C9_UpdateDragFromOneMicrosecond ==
    [][ /\ (op'.name = "updateDrag" /\ store.state = "DRAGGING" /\ op'.c >= 10) =>
                DragEffect(store, store', op'.a, op'.b, op'.c)
        /\ DragScenario ]_vars

C9_Witness ==
    /\ op.name = "endDrag"
    /\ op.from = "DRAGGING"
    /\ store.state = "INERTIA"
    /\ store.velocity = [theta |-> -1562500, phi |-> 0]
    /\ store.target.theta = -25000

\* C10: nudgeOrbitFromKeys with a non-zero direction moves the machine from
\* IDLE to INERTIA and leaves the state as it is in DRAGGING and INERTIA;
\* with both directions 0 it changes nothing.
C10_NudgeTransition ==
    [][ op'.name = "nudgeOrbitFromKeys" =>
            IF op'.a = 0 /\ op'.b = 0
            THEN store' = store
            ELSE store'.state = IF store.state = "IDLE"
                                THEN "INERTIA" ELSE store.state ]_vars

C10_Witness ==
    /\ op.name = "nudgeOrbitFromKeys"
    /\ op.a # 0
    /\ op.from = "DRAGGING"
    /\ store.state = "DRAGGING"
    /\ store.velocity # ZeroVelocity

\* C11: after any sequence of setZoomTarget, applyWheelZoom, applyPinchZoom
\* and commitZoom (and of orbit operations between them) the target zoom lies
\* within [minZoom, maxZoom].
C11_TargetZoomWithinRange ==
    /\ Finite(store.targetZoom)
    /\ store.config.minZoom <= store.targetZoom
    /\ store.targetZoom <= store.config.maxZoom

\* a negative pinch, called after the zoom has been eased away from its
\* initial level, has been clamped to minZoom
C11_Witness ==
    /\ op.name = "applyPinchZoom" /\ op.a < 0
    /\ store.targetZoom = store.config.minZoom
    /\ store.zoom # initialState.zoom

ZoomOps == {"setZoomTarget", "applyWheelZoom", "applyPinchZoom", "commitZoom"}

OrbitOps == {"beginDrag", "updateDrag", "endDrag", "tickInertia", "nudgeOrbitFromKeys"}

\* z brought into [minZoom, maxZoom] of the store's configuration
InZoomRange(z) ==
    IF z < store.config.minZoom THEN store.config.minZoom
    ELSE IF z > store.config.maxZoom THEN store.config.maxZoom ELSE z

Gap(a, b) == Abs(a - b)

\* what the zoom operation named in op' has done to the zoom levels,
\* whatever the state of the orbit machine
ZoomTakesEffect ==
    /\ op'.name = "setZoomTarget" => store'.targetZoom = InZoomRange(op'.a)
    /\ op'.name = "applyWheelZoom" =>
            store'.targetZoom = InZoomRange(store.targetZoom + op'.a * 100)
    /\ op'.name = "applyPinchZoom" =>
            store'.targetZoom = InZoomRange((store.targetZoom * op'.a) \div 1000)
    /\ op'.name = "commitZoom" =>
            /\ Gap(store'.zoom, store.targetZoom) <= Gap(store.zoom, store.targetZoom)
            /\ (op'.a > 0 /\ Gap(store.zoom, store.targetZoom) >= 100) =>
                    Gap(store'.zoom, store.targetZoom) < Gap(store.zoom, store.targetZoom)
            /\ store'.targetZoom = store.targetZoom

\* C12: a zoom operation takes effect in every state of the orbit machine
\* and leaves the state, the target angles and the velocity as they were;
\* beginDrag, updateDrag, endDrag, tickInertia and nudgeOrbitFromKeys leave
\* zoom and targetZoom as they were.
C12_ZoomIndependentOfOrbit ==
    [][ /\ op'.name \in ZoomOps =>
            /\ ZoomTakesEffect
            /\ store'.state = store.state
            /\ store'.target = store.target
            /\ store'.velocity = store.velocity
        /\ op'.name \in OrbitOps =>
            /\ store'.zoom = store.zoom
            /\ store'.targetZoom = store.targetZoom ]_vars

\* commitZoom called while coasting: the zoom has moved toward a changed
\* target and the coast goes on
C12_Witness ==
    /\ op.name = "commitZoom" /\ op.from = "INERTIA"
    /\ store.state = "INERTIA"
    /\ store.velocity.theta # 0
    /\ store.zoom # initialState.zoom
    /\ store.targetZoom # initialState.targetZoom

Returned(name) == fn.pc = "returned" /\ fn.name = name

\* C13: on a desktop device decideTier returns HIGH for fps >= 55, MEDIUM
\* for 40 <= fps < 55 and LOW for fps < 40, zero and negative fps included
\* (in both texts of deviceCaps.ts).
C13_DesktopTiers ==
    (Returned("decideTier") /\ ~fn.isMobile) =>
        /\ fn.fps >= 550 => fn.result = HIGH
        /\ (400 <= fn.fps /\ fn.fps < 550) => fn.result = MEDIUM
        /\ fn.fps < 400 => fn.result = LOW

\* exactly 55 fps on a desktop is HIGH
C13_Witness ==
    /\ Returned("decideTier") /\ ~fn.isMobile
    /\ fn.impl = "deviceCaps.ts"
    /\ fn.fps = 550 /\ fn.result = HIGH

\* C14: on a mobile device decideTier never returns HIGH, so the particle
\* budget of the chosen tier is at most 20000.
C14_MobileNeverHigh ==
    (Returned("decideTier") /\ fn.isMobile) =>
        /\ fn.result # HIGH
        /\ getQualityConfig(fn.result).particles <= 20000

\* 240 fps on a mobile device is still MEDIUM
C14_Witness ==
    /\ Returned("decideTier") /\ fn.isMobile
    /\ fn.impl = "part_003"
    /\ fn.fps = 2400 /\ fn.result = MEDIUM

C16_MobileThreshold35 ==
    (Returned("decideTier") /\ fn.isMobile) =>
        fn.result = (IF fn.fps >= 350 THEN MEDIUM ELSE LOW)

\* C17: the quality table gives 5000, 20000 and 50000 particles to LOW,
\* MEDIUM and HIGH, strictly increasing with the tier, and a renderScale
\* within [0.8, 1.0] that does not decrease with the tier.
TierRank(t) == CASE t = LOW -> 0 [] t = MEDIUM -> 1 [] t = HIGH -> 2

C17_QualityTable ==
    Returned("getQualityConfig") =>
        /\ fn.result.particles =
              (CASE fn.tier = LOW -> 5000 [] fn.tier = MEDIUM -> 20000
                 [] fn.tier = HIGH -> 50000)
        /\ 800 <= fn.result.renderScale /\ fn.result.renderScale <= 1000
        /\ \A t \in QualityTier :
              TierRank(t) < TierRank(fn.tier) =>
                /\ getQualityConfig(t).particles < fn.result.particles
                /\ getQualityConfig(t).renderScale <= fn.result.renderScale

C17_Witness ==
    /\ Returned("getQualityConfig") /\ fn.tier = HIGH
    /\ fn.result.particles = 50000 /\ fn.result.renderScale = 1000

\* C18: clampDpr(raw, isMobile) is the smaller of raw and the cap, 1.5 on
\* mobile and 2.0 on desktop: never above the cap, never above raw, and raw
\* itself whenever raw is at or below the cap (zero and negatives included).
C18_ClampDpr ==
    Returned("clampDpr") =>
        LET cap == IF fn.isMobile THEN 1500 ELSE 2000
        IN  /\ fn.result = (IF fn.dpr < cap THEN fn.dpr ELSE cap)
            /\ fn.result <= cap
            /\ fn.result <= fn.dpr
            /\ fn.dpr <= cap => fn.result = fn.dpr

\* a ratio of 1.75 on a mobile device comes back as 1.5
C18_Witness ==
    /\ Returned("clampDpr") /\ fn.isMobile
    /\ fn.dpr = 1750 /\ fn.result = 1500

\* C19: outside a browser evaluateDeviceCaps resolves, without probing for
\* a context and without waiting for an animation frame, to: rendering
\* unavailable, version 0, tier LOW with the LOW configuration, dpr 1,
\* clampedDpr 1, fpsEstimate 0, isMobile false.
C19_NonInteractiveFallback ==
    ~caps.env.browser =>
        /\ caps.pc \in {"idle", "resolved"}
        /\ caps.acquired = 0
        /\ caps.framesRequested = 0
        /\ ~caps.benchmarkStarted
        /\ caps.pc = "resolved" =>
            /\ caps.result.isWebGLAvailable = FALSE
            /\ caps.result.webglVersion = 0
            /\ caps.result.tier = LOW
            /\ caps.result.config = QUALITY_CONFIG[LOW]
            /\ caps.result.dpr = 1000
            /\ caps.result.clampedDpr = 1000
            /\ caps.result.fpsEstimate = 0
            /\ caps.result.isMobile = FALSE

\* resolved outside a browser, in an environment whose other traits would
\* have given a mobile device, a high pixel ratio and a WebGL2 context
C19_Witness ==
    /\ ~caps.env.browser
    /\ caps.pc = "resolved"
    /\ caps.env.userAgent.mobileKeyword /\ ~caps.env.userAgent.tablet
    /\ caps.env.devicePixelRatio = 3000
    /\ "webgl2" \in caps.env.contexts

\* no call of getContext gives a context
NoBackend(env) == env.getContextThrows \/ env.contexts = {}

\* C20: in a browser where no rendering backend can be acquired,
\* evaluateDeviceCaps resolves to: rendering unavailable, tier LOW with the
\* LOW configuration, a non-empty reason; the benchmark is never started.
\* (Detection follows the read of navigator.userAgent; a run in which that
\* read throws never reaches detection and is the subject of C21.)
C20_NoBackendFallback ==
    (caps.env.browser /\ NoBackend(caps.env) /\ caps.env.fault # "userAgent") =>
        /\ caps.pc \in {"idle", "resolved"}
        /\ ~caps.benchmarkStarted
        /\ caps.framesRequested = 0
        /\ caps.pc = "resolved" =>
            /\ caps.result.isWebGLAvailable = FALSE
            /\ caps.result.tier = LOW
            /\ caps.result.config = QUALITY_CONFIG[LOW]
            /\ caps.result.reason # ""

\* resolved on a phone whose getContext throws
C20_Witness ==
    /\ caps.env.browser /\ caps.env.getContextThrows
    /\ caps.pc = "resolved"
    /\ caps.result.isMobile
    /\ caps.result.reason = "WebGL detection failed: message"

\* a step of the probing has thrown in this run
ProbingThrew(c) ==
    /\ c.env.browser
    /\ \/ c.env.fault = "userAgent"
       \/ c.env.getContextThrows
       \/ c.env.impl = "part_003" /\ c.env.fault # "none" /\ c.acquired > 0

\* C21: evaluateDeviceCaps never rejects: its promise is settled only by
\* resolution, is never left pending by a dead callback, and when a step of
\* the probing has thrown it resolves to rendering unavailable, tier LOW and
\* a non-empty reason.
C21_NeverRejects ==
    /\ caps.pc \notin {"rejected", "pending forever"}
    /\ (caps.pc = "resolved" /\ ProbingThrew(caps)) =>
            /\ caps.result.isWebGLAvailable = FALSE
            /\ caps.result.tier = LOW
            /\ caps.result.reason # ""

\* C22: when evaluateDeviceCaps has returned, no probe context that it
\* acquired is still live.
C22_ProbeContextsReleased ==
    caps.pc = "resolved" => caps.live = 0

\* within the current frame, tickInertia is directly followed by commitZoom
\* and commitZoom directly preceded by tickInertia
TickOrder ==
    \A i \in 1 .. Len(sched.log) :
        /\ sched.log[i] = "tickInertia" =>
                i < Len(sched.log) /\ sched.log[i + 1] = "commitZoom"
        /\ sched.log[i] = "commitZoom" =>
                i > 1 /\ sched.log[i - 1] = "tickInertia"

Loop(sc) ==
    [ rafIdRef |-> sc.rafIdRef, lastTsRef |-> sc.lastTsRef,
      isRunning |-> sc.isRunning, pending |-> sc.pending, nextId |-> sc.nextId ]

\* C24: at most one frame callback of the loop is pending at any time, and
\* start called while the loop is running schedules nothing and changes
\* nothing.
C24_SingleCallbackPending ==
    [][ /\ Cardinality(sched'.pending) <= 1
        /\ (sched'.last.name = "start" /\ sched.rafIdRef # NULL) =>
                /\ Loop(sched') = Loop(sched)
                /\ store' = store ]_vars

\* start has been called on a running loop
C24_Witness ==
    /\ sched.last.name = "start" /\ sched.last.wasRunning
    /\ Cardinality(sched.pending) = 1
    /\ sched.frame > 0

\* C25: after stop (once or again, running or not) and after unmount no
\* frame callback of the loop is pending, and the loop calls tickInertia and
\* commitZoom again only after the next start.
C25_StopCancels ==
    [][ /\ sched'.last.name \in {"stop", "unmount"} =>
                sched'.pending = {} /\ sched'.rafIdRef = NULL
        /\ sched'.rafIdRef = NULL => sched'.pending = {}
        /\ sched'.last.name = "tick" => sched.rafIdRef # NULL ]_vars

\* stop called a second time, after the loop had run physics
C25_Witness ==
    /\ sched.last.name = "stop" /\ ~sched.last.wasRunning
    /\ sched.pending = {}
    /\ store # CoastingStore

\* C26: every dtMs the loop passes to tickInertia and commitZoom is within
\* [0, maxDtMs], and the first callback after a start records the timestamp
\* without calling either.
C26_FrameDeltaClamped ==
    [][ sched'.last.name = "tick" =>
            IF sched.lastTsRef = 0
            THEN /\ sched'.last.dt = NULL
                 /\ store' = store
                 /\ sched'.lastTsRef = sched.now
            ELSE /\ 0 <= sched'.last.dt /\ sched'.last.dt <= 50
                 /\ op'.a = Ms(sched'.last.dt) ]_vars

\* a frame 5 s after the one before, processed with dtMs = 50
C26_Witness ==
    /\ sched.last.name = "tick"
    /\ sched.gap = 5000
    /\ sched.last.dt = 50

\* C27: a context-lost signal leaves a non-empty error in the hero store, and
\* a context-restored signal that follows it leaves the error cleared and
\* isLoaded true.
C27_ContextLostAndRestored ==
    [][ /\ op'.name = "handleContextLost" => hero'.error # ""
        /\ op'.name = "handleContextRestore" =>
              canvas.contextLost /\ hero'.error = "" /\ hero'.isLoaded
      ]_vars

C27_Witness ==
    /\ op.name = "handleContextRestore"
    /\ canvas.everLost /\ ~canvas.contextLost
    /\ hero.error = "" /\ hero.isLoaded

\* C28: when the capability evaluation reports rendering unavailable, the
\* initialisation leaves the hero store with isWebGLAvailable false, tier
\* LOW, a non-empty error and isLoaded false, and evaluates no second time.
C28_UnavailableInitialisation ==
    [][ ( /\ op'.name = "initializeCapabilities"
          /\ caps.outcome.kind = "resolved"
          /\ ~caps.outcome.result.isWebGLAvailable )
        => /\ ~hero'.isWebGLAvailable
           /\ hero'.tier = LOW
           /\ hero'.error # ""
           /\ ~hero'.isLoaded
           /\ caps'.pc = "resolved"
           /\ canvas'.evaluations = 1
      ]_vars

C28_Witness ==
    /\ op.name = "initializeCapabilities"
    /\ caps.pc = "resolved"
    /\ ~caps.outcome.result.isWebGLAvailable
    /\ ~hero.isWebGLAvailable /\ hero.tier = LOW
    /\ hero.error = "WebGL unavailable" /\ ~hero.isLoaded

PinchReturned == fn.pc = "returned" /\ ~fn.result.isNull

\* C30: computePinch never divides by zero: called without a previous state
\* it returns a scale of 1 for every pair of touch points, two touches at
\* one position included; called with a previous state it returns a finite
\* scale, the quotient of the distance by a previous distance that is not
\* zero.
C30_NeverDividesByZero ==
    PinchReturned =>
        /\ ~fn.prev.defined => fn.result.metrics.scale = 1000
        /\ fn.prev.defined =>
              /\ fn.prev.distance # 0
              /\ fn.result.metrics.scale \notin {NaN, Infinity}

\* C32: for every integer seed, 0, negative seeds and multiples of
\* 2147483647 included, the state of the seeded generator is within
\* [1, 2147483646] and every value it returns is within [0, 1).
C32_GeneratorStateInRange ==
    /\ fn.state \in 1..2147483646
    /\ fn.calls > 0 => fn.value \in 0..2147483645

\* C35: while the rendering context is lost (the loss was signalled, the
\* restoration not yet), the error of the hero store is non-empty, whenever
\* the capability evaluation completes.
C35_ErrorWhileContextLost ==
    canvas.contextLost => hero.error # ""

\* C36: in every state reachable by the operations of the interaction
\* store, state = IDLE implies that |velocity.theta| and |velocity.phi| are
\* both below 1e-4 rad/s.
C36_IdleMeansAtRest ==
    store.state = "IDLE" =>
        /\ FLt(MathAbs(store.velocity.theta), VELOCITY_EPSILON)
        /\ FLt(MathAbs(store.velocity.phi), VELOCITY_EPSILON)

\* C31: the store receives at most one updateDrag in an animation frame,
\* however many move events arrived, and that update is the step from the
\* last delivered position to the position of the most recent move event.
C31_OneUpdatePerFrame ==
    /\ controls.updatesInFrame <= 1
    /\ controls.last.call.name = "updateDrag" =>
          /\ controls.last.event = "frame"
          /\ controls.latest.defined /\ controls.last.from.defined
          /\ controls.last.call.dx = controls.latest.x - controls.last.from.x
          /\ controls.last.call.dy = controls.latest.y - controls.last.from.y
          /\ controls.lastPointerRef = controls.latest

C31_Witness ==
    /\ controls.last.call.name = "updateDrag"
    /\ controls.last.moves >= 2
    /\ controls.last.call.dx # 0
    /\ controls.updatesInFrame = 1

EndEvents == EndEventTypes \cup TouchEndEventTypes

\* C33: beginDrag is called only when no drag is open, endDrag and updateDrag
\* only while one is open, and the first end event of the pointer that
\* began the drag calls endDrag: repeated end events and a pointerdown or
\* touchstart during the drag call nothing.  (A drag that loses its
\* tracking to a change of enabled or an unmount is the subject of C34.)
C33_OneBeginOneEnd ==
    LET l == controls.last
    IN  /\ l.call.name = "beginDrag" => (~l.openBefore \/ l.cutBefore)
        /\ l.call.name = "endDrag" => (l.openBefore /\ ~l.cutBefore)
        /\ l.call.name = "updateDrag" => (l.openBefore /\ ~l.cutBefore)
        /\ (l.event \in EndEvents /\ l.openBefore /\ ~l.cutBefore /\ l.ofGesture)
              => l.call.name = "endDrag"
        /\ (l.event \in {"pointerdown", "touchstart"} /\ l.openBefore /\ ~l.cutBefore)
              => l.call.name = "none"

\* a repeated end event of the gesture, after the endDrag
C33_Witness ==
    /\ controls.last.event \in EndEvents
    /\ controls.last.ofGesture
    /\ ~controls.last.openBefore
    /\ controls.last.call.name = "none"
    /\ store.state # "DRAGGING"
    /\ store.velocity.theta # 0

\* C34: the interaction store is DRAGGING only while OrbitControls tracks a
\* drag, also after the controls were disabled or unmounted during a drag.
C34_DraggingOnlyWhileTracked ==
    store.state = "DRAGGING" =>
        controls.mounted /\ controls.enabled /\ controls.isDraggingRef


\* C37: setConfig merges only the given fields into config and leaves
\* state, target, velocity, zoom and targetZoom unchanged, and immediately
\* afterwards target.phi is within the new elevation bounds and targetZoom
\* within the new zoom bounds.
C37_SetConfigKeepsBounds ==
    [][op'.name = "setConfig" =>
        /\ \E partial \in BoundPartials :
              store'.config =
                  [k \in DOMAIN store.config |->
                      IF k \in DOMAIN partial THEN partial[k]
                      ELSE store.config[k]]
        /\ store'.state = store.state
        /\ store'.target = store.target
        /\ store'.velocity = store.velocity
        /\ store'.zoom = store.zoom
        /\ store'.targetZoom = store.targetZoom
        /\ Finite(store'.target.phi)
        /\ getElevationLimits(store'.config).minPhi <= store'.target.phi
        /\ store'.target.phi <= getElevationLimits(store'.config).maxPhi
        /\ Finite(store'.targetZoom)
        /\ store'.config.minZoom <= store'.targetZoom
        /\ store'.targetZoom <= store'.config.maxZoom]_vars


\* C38: in every reachable state of the hero store, after any sequence of
\* setCaps (with results of evaluateDeviceCaps), setTier, setFps, setLoaded,
\* setError and reset, config is the quality-table entry of tier; setFps,
\* setLoaded and setError change only their own field.
C38_ConfigFollowsTier ==
    /\ [](hero.config = QUALITY_CONFIG[hero.tier])
    /\ [][/\ op'.name = "setFps" => hero' = [hero EXCEPT !.fps = hero'.fps]
          /\ op'.name = "setLoaded" =>
                hero' = [hero EXCEPT !.isLoaded = hero'.isLoaded]
          /\ op'.name = "setError" =>
                hero' = [hero EXCEPT !.error = hero'.error]]_vars

\* setTier has moved a store filled by a successful evaluation to HIGH
C38_Witness ==
    /\ op.name = "setTier"
    /\ hero.isWebGLAvailable
    /\ hero.tier = HIGH
    /\ hero.config = QUALITY_CONFIG[HIGH]


\* C39: tickInertia called while the machine is IDLE or DRAGGING changes
\* nothing: state, target, velocity, zoom and targetZoom are as before, so
\* a scheduler tick during a drag never moves the drag target.
C39_TickOutsideInertiaIsNoOp ==
    [][op'.name = "tickInertia" /\ store.state \in {"IDLE", "DRAGGING"} =>
        /\ store'.state = store.state
        /\ store'.target = store.target
        /\ store'.velocity = store.velocity
        /\ store'.zoom = store.zoom
        /\ store'.targetZoom = store.targetZoom]_vars

\* a tick has arrived during a drag that was moving the target
C39_Witness ==
    /\ op.name = "tickInertia"
    /\ op.from = "DRAGGING"
    /\ op.a > 0
    /\ store.state = "DRAGGING"
    /\ Finite(store.velocity.theta)
    /\ store.velocity.theta # 0


\* the new zoom lies between the old zoom and targetZoom, ends included
NoOvershoot ==
    /\ store'.targetZoom = store.targetZoom
    /\ \/ store.zoom <= store'.zoom /\ store'.zoom <= store.targetZoom
       \/ store.targetZoom <= store'.zoom /\ store'.zoom <= store.zoom

\* the step (targetZoom - zoom) * (1 - exp(-4 * dtMs / 1000)) that a commit
\* of dtMs would add is lost to rounding
StepRoundsToNothing(dtMs) ==
    easeExp(store.zoom, store.targetZoom, ZOOM_EASE_LAMBDA, dtMs) = store.zoom

ZoomWithinBounds ==
    /\ Finite(store.zoom)
    /\ store.config.minZoom <= store.zoom
    /\ store.zoom <= store.config.maxZoom

\* repeated commits at dtMs > 0 end within rounding of targetZoom
EasingSettles ==
    <>[](op.name = "commitZoom" /\ (op.a > 0 => StepRoundsToNothing(op.a)))

====
